---- MODULE Spec2Model ----
(***************************************************************************)
(* A model of the Reply Pass backend (FastAPI): the in-memory rate         *)
(* limiter, the middleware stack, the registration / password-reset        *)
(* handlers and the bearer-token dependencies.                             *)
(***************************************************************************)
EXTENDS Integers, Sequences, FiniteSets, TLC

VARIABLES
    \* RateLimitMiddleware
    requests,             \* self.requests: dict client_ip -> list of timestamps
    requests_per_minute,  \* self.requests_per_minute (constructor argument)
    now,                  \* time.time(), in whole seconds
    served,               \* number of requests dispatched so far (bounds the run)
    last,                 \* the request dispatched last and its answer
    hist,                 \* per client: its requests of the last 60 seconds (history)
    \* the middleware stack of app/main.py and the request passing through it
    environment,          \* settings.environment
    req,                  \* the request in flight
    phase,                \* "idle", "in" (towards the endpoint), "out", "done"
    depth,                \* the position in the stack of the stage to run next
    inbound,              \* the stages the request entered, in order
    outbound,             \* the stages that handled the response, in order
    resp,                 \* the response on its way out
    headers,              \* its headers: a set of <<name, value>>
    content,              \* its content (the text, or the "error" of a JSON body)
    logs,                 \* the lines StructuredLoggingMiddleware logged for the request
    \* the authentication API (app/api/auth.py) and the stores behind it
    idp_users,            \* the accounts of the identity provider, by email
    profiles,             \* the rows of the local users table, by email
    api,                  \* the API call handled last and its answer
    \* the authentication dependencies (app/auth/dependencies.py)
    jwt_secret,           \* whether SUPABASE_JWT_SECRET is set
    auth,                 \* the bearer token resolved last and the outcome
    gate,                 \* the resource-owner gate run last and the outcome
    optional,             \* the optional resolution run last and the outcome
    \* the clock read by the health checker and by the models (datetime.utcnow())
    clock,
    \* one HealthChecker (app/core/health.py)
    cache,                \* self._cache: kind of check -> result and cached_at
    health,               \* the check run last and what it returned
    computed,             \* per kind: the result computed last, and when (history)
    checks_done,          \* number of checks run so far (bounds the run)
    \* the scoped-session provider (app/database.py)
    sessions,             \* per session handed out: its calls and its transaction
    \* the store behind the repositories (app/repositories)
    users,                \* the ids of the rows of the users table
    cases,                \* the rows of the cases table, by id
    repo,                 \* the repository call made last and what it returned
    \* the requests being served at once by the one event loop
    flight,               \* the requests in flight at the rate limiter, by slot
    audit,                \* the run of scripts/verify_rls_policies.py: its progress and exit code
    webhook,              \* the webhook event StripeClient handled last and the outcome
    listing               \* the GET /cases request handled last and its answer

rateVars == <<requests, requests_per_minute, now, served, last, hist>>

stackVars == <<environment, req, phase, depth, inbound, outbound, resp,
               headers, content, logs>>

apiVars == <<idp_users, profiles, api>>

depVars == <<jwt_secret, auth, gate, optional>>

\* the variables of the parts of the program that the sections written for
\* the web layer, the health checker and the store never touch
sideVars == <<flight, audit, webhook, listing>>

webVars == <<rateVars, stackVars, apiVars, depVars, sideVars>>

healthVars == <<cache, health, computed, checks_done>>

dataVars == <<sessions, users, cases, repo>>

coreVars == <<clock, healthVars, dataVars, sideVars>>

vars == <<requests, requests_per_minute, now, served, last, hist,
          environment, req, phase, depth, inbound, outbound, resp,
          headers, content, logs,
          idp_users, profiles, api, jwt_secret, auth, gate, optional,
          clock, cache, health, computed, checks_done,
          sessions, users, cases, repo, flight, audit, webhook, listing>>

----------------------------------------------------------------------------
(* The records of the model, each with its fields in the order every
   constructor below writes them. *)

\* no request dispatched yet by the rate limiter; state holds the attributes
\* dispatch has put on request.state, as pairs of a name and a value
NoRequest == [client |-> "", path |-> <<>>, time |-> 0, status |-> 0,
              error |-> "", retry_after |-> 0, passed |-> FALSE, state |-> {}]

\* no request in flight in the stack
NoReq == [client |-> "", path |-> <<>>, method |-> "", origin |-> "",
          shape |-> [content_length_over |-> FALSE, content_type_ok |-> TRUE,
                     query_bad |-> FALSE, traversal |-> FALSE, header_over |-> FALSE]]

\* no response yet
NoResp == [status |-> 0, by |-> ""]

\* no entry of a client's history
NoEntry == [path |-> <<>>, time |-> 0, verdict |-> ""]

\* no API call handled yet: the operation, the address, what the identity
\* provider and the users table did, and the answer
NoCall == [status |-> 0, op |-> "", email |-> "", sign_up |-> "", insert |-> "",
           rollback |-> "", delete_calls |-> 0, detail |-> "", visible |-> ""]

\* an exception in flight
NoException == [status |-> 0, detail |-> "", kind |-> ""]

\* no bearer token: the signature and the claims of its payload
NoToken == [signature |-> "", iat |-> "", exp |-> "", aud |-> "", sub |-> ""]

\* no token resolved yet: the credentials, and the user or the error
NoAuth == [status |-> 0, detail |-> "", credentials |-> FALSE, token |-> NoToken,
           user_id |-> ""]

\* no gate run yet: the name the gate was built for, the path parameter of
\* that name, the query parameter path_user_id, and the outcome
NoGate == [status |-> 0, passed |-> FALSE, detail |-> "", user_id |-> "",
           user_id_field |-> "", path_value |-> "", query_value |-> ""]

\* no optional resolution yet: the credentials and the token, what was
\* returned ("context" or "None") and its user, and the kind of the exception
\* that came out instead ("" when none did)
NoOptional == [credentials |-> FALSE, token |-> NoToken, user_id |-> "",
               returned |-> "", raised |-> ""]

\* the result of one dependency probe (DependencyHealthResult), or the
\* exception gathered in its place
NoProbe == [status |-> "", error |-> "", name |-> ""]

\* no health result: the overall status, the probes' results, and the time
\* written into it
NoResult == [status |-> "", checks |-> <<>>, timestamp |-> 0]

\* no check run yet: the kind, the start, what was returned, how many probes
\* ran, and the result computed before it with its time
NoCheck == [kind |-> "", started |-> 0, result |-> NoResult, probes_run |-> 0,
            prior |-> [result |-> NoResult, at |-> 0, known |-> FALSE]]

\* a session not handed out yet: where it is, how the caller's unit of work
\* ended, its writes, the calls made on it, its transaction, and whether it
\* is closed
NoSession == [state |-> "unused", finish |-> "", writes |-> 0, calls |-> <<>>,
              tx |-> "", closed |-> FALSE]

\* a row of the cases table
NoCase == [user_id |-> "", name |-> "", partner_name |-> "", case_metadata |-> <<>>,
           deleted_at |-> 0]

\* no repository call made yet: the operation, the user, the time, the case
\* it was about, its arguments, the row before it (for a bulk call the
\* table before it), whether a row was found, and the ids listed
NoOp == [op |-> "", user_id |-> "", at |-> 0, case_id |-> "", include_deleted |-> FALSE,
         metadata |-> <<>>, case_ids |-> {}, row_before |-> NoCase,
         table_before |-> <<>>, ok |-> FALSE, listed |-> {}]

\* a slot with no request in flight: the client and the path of the request
\* and the point its dispatch has reached
NoFlight == [client |-> "", path |-> <<>>, pc |-> "none"]

\* no listing made: the status of the answer, the caller, the filters, the
\* page asked for, the ids of the cases returned and the total reported
NoListing == [status |-> 0, user_id |-> "", returned |-> <<>>,
              include_deleted |-> FALSE, partner_type |-> "", search |-> <<>>,
              page |-> 0, limit |-> 0, total |-> 0]

\* no webhook event handled: the exception that left the handler, whether it
\* was called, the type and the data of the event, the line it logged and
\* the envelope it returned (a set of <<key, value>>)
NoWebhook == [raised |-> "", called |-> FALSE, event_type |-> "", data |-> <<"", {}>>,
              logged |-> <<>>, envelope |-> {}]

\* a run of the audit tool that has not started: the step that raised into
\* main's except clause, the point the run has reached, whether the store
\* answers, the number of tables audited, the score of the table audited
\* last, the two lists of findings, and the exit code (-1 while it runs)
NoAudit == [raised |-> "", pc |-> "start", store |-> "up", audited |-> 0,
            security_score |-> 0, critical_issues |-> <<>>, warnings |-> <<>>,
            exit_code |-> -1,
            rls_enabled |-> FALSE]

----------------------------------------------------------------------------
(* Bounds of the model *)

MaxRequests == 5
MaxTime == 60
SmallLimit == 2
StackMaxRequests == 3
MaxChecks == 2
MaxHealthTime == 45
MaxWrites == 1
MaxClock == 2
MaxArrivals == 3
MaxVaried == 3
MaxPolicies == 3
MaxPage == 2
MaxLimit == 2

(* Program constants *)

DefaultRequestsPerMinute == 60
WindowSeconds == 60
RetryAfterSeconds == 60
HTTP_429_TOO_MANY_REQUESTS == 429
CacheDurationSeconds == 30

\* the clock of the model advances by half a window
TickStep == WindowSeconds \div 2

Clients == {"10.0.0.1", "10.0.0.2"}

\* A path is the sequence of its segments: "/api/auth/login" is
\* <<"api", "auth", "login">>; a trailing slash is an empty last segment.
Paths ==
    { <<"api", "upload", "image">>,
      <<"api", "generate", "reply">>,
      <<"health">> }

----------------------------------------------------------------------------
(* Settings.rate_limits: the per-prefix table in its insertion order, and
   its "default" entry. A pattern "/api/auth/" is <<"api", "auth">> followed
   by a slash.  *)

rate_limits ==
    << [pattern |-> <<"api", "auth">>, limit |-> 10],
       [pattern |-> <<"api", "upload">>, limit |-> 3],
       [pattern |-> <<"api", "generate">>, limit |-> 5],
       [pattern |-> <<"api", "webhooks">>, limit |-> 100] >>

rate_limits_default == 60

\* str.startswith for a pattern that ends with a slash
StartsWith(path, pattern) ==
    /\ Len(path) > Len(pattern)
    /\ SubSeq(path, 1, Len(pattern)) = pattern

\* the index of the first entry of the table whose pattern the path starts
\* with (the loop of _get_endpoint_rate_limit), 0 when there is none
MatchedPattern(path) ==
    LET hits == { i \in 1..Len(rate_limits) : StartsWith(path, rate_limits[i].pattern) }
    IN IF hits = {} THEN 0 ELSE CHOOSE i \in hits : \A j \in hits : i <= j

\* RateLimitMiddleware._get_endpoint_rate_limit: the first matching entry
GetEndpointRateLimit(path) ==
    IF MatchedPattern(path) = 0
    THEN rate_limits_default
    ELSE rate_limits[MatchedPattern(path)].limit

\* (a variant of the pruning that keeps only the timestamps of this very second)
PruneToNow(timestamps, current_time) ==
    SelectSeq(timestamps, LAMBDA t : current_time - t < 0)

\* [t for t in timestamps if current_time - t < 60]
Prune(timestamps, current_time) ==
    SelectSeq(timestamps, LAMBDA t : current_time - t < WindowSeconds)

\* (a variant of the cleanup test that wants every timestamp recent)
AllRecent(timestamps, cutoff_time) ==
    \A i \in 1..Len(timestamps) : timestamps[i] > cutoff_time

\* any(t > cutoff_time for t in timestamps)
AnyRecent(timestamps, cutoff_time) ==
    \E i \in 1..Len(timestamps) : timestamps[i] > cutoff_time

\* the dict comprehension of the once-a-minute cleanup
Cleanup(reqs, current_time) ==
    LET keep == { ip \in DOMAIN reqs : AnyRecent(reqs[ip], current_time - WindowSeconds) }
    IN [ip \in keep |-> reqs[ip]]

\* if current_time % 60 < 1
CleanupDue(current_time) == current_time % 60 < 1

\* self.requests after the cleanup and the "if client_ip not in self.requests"
Prepared(reqs, client_ip, current_time) ==
    LET cleaned == IF CleanupDue(current_time) THEN Cleanup(reqs, current_time) ELSE reqs
    IN IF client_ip \in DOMAIN cleaned
       THEN cleaned
       ELSE [ip \in DOMAIN cleaned \cup {client_ip} |->
                IF ip = client_ip THEN <<>> ELSE cleaned[ip]]

\* (a variant of the global check that lets one request too many through)
GlobalExceededLate(window, limit) == Len(window) > limit

\* the global check: len(self.requests[client_ip]) >= self.requests_per_minute
GlobalExceeded(window, limit) == Len(window) >= limit

\* the per-endpoint check, made after the request's timestamp was appended
EndpointExceeded(window, endpoint_limit, limit) ==
    /\ endpoint_limit # 0
    /\ endpoint_limit # limit
    /\ Len(window) >= endpoint_limit

\* the answer of dispatch for a window already pruned
Verdict(pruned, path, current_time, limit) ==
    IF GlobalExceeded(pruned, limit)
    THEN "global"
    ELSE IF EndpointExceeded(Append(pruned, current_time),
                             GetEndpointRateLimit(path), limit)
         THEN "endpoint"
         ELSE "next"

\* the history of a client, cut to the requests of the last 60 seconds
Recent(h, current_time) ==
    SelectSeq(h, LAMBDA r : current_time - r.time < WindowSeconds)

\* request.state.rate_limit_remaining and request.state.rate_limit_total,
\* set once the timestamp of the request is in the window
RateLimitState(window, limit) ==
    { <<"rate_limit_remaining", limit - Len(window)>>,
      <<"rate_limit_total", limit>> }

----------------------------------------------------------------------------
(* RateLimitMiddleware.dispatch, one request of client_ip to path *)

Dispatch(client_ip, path) ==
    /\ served < MaxRequests
    /\ LET prepared == Prepared(requests, client_ip, now)
           pruned == Prune(prepared[client_ip], now)
           verdict == Verdict(pruned, path, now, requests_per_minute)
       IN /\ requests' = [prepared EXCEPT ![client_ip] =
                             IF verdict = "global" THEN pruned ELSE Append(pruned, now)]
          /\ last' = [client |-> client_ip, path |-> path, time |-> now,
                      status |-> IF verdict = "next" THEN 200
                                 ELSE HTTP_429_TOO_MANY_REQUESTS,
                      error |-> CASE verdict = "global" -> "Rate limit exceeded"
                                  [] verdict = "endpoint" -> "Endpoint rate limit exceeded"
                                  [] OTHER -> "",
                      retry_after |-> IF verdict = "next" THEN 0 ELSE RetryAfterSeconds,
                      passed |-> verdict = "next",
                      state |-> IF verdict = "global" THEN {}
                                ELSE RateLimitState(Append(pruned, now),
                                                    requests_per_minute)]
          /\ hist' = [hist EXCEPT ![client_ip] =
                         Append(Recent(@, now),
                                [path |-> path, time |-> now, verdict |-> verdict])]
    /\ served' = served + 1
    /\ UNCHANGED <<requests_per_minute, now>>

\* a request reaches the rate limiter
RateDispatch(client_ip, path) ==
    /\ Dispatch(client_ip, path)
    /\ UNCHANGED stackVars
    /\ UNCHANGED apiVars
    /\ UNCHANGED depVars
    /\ UNCHANGED coreVars

\* the clock advances
Tick ==
    /\ now + TickStep <= MaxTime
    /\ now' = now + TickStep
    /\ hist' = [c \in Clients |-> Recent(hist[c], now + TickStep)]
    /\ UNCHANGED <<requests, requests_per_minute, served, last>>
    /\ UNCHANGED stackVars
    /\ UNCHANGED apiVars
    /\ UNCHANGED depVars
    /\ UNCHANGED coreVars

RateNext ==
    \/ \E c \in Clients, p \in Paths : RateDispatch(c, p)
    \/ Tick

----------------------------------------------------------------------------
(* Requests served at once.  The event loop runs one coroutine at a time and
   switches only at an await; dispatch of the rate limiter has a single one,
   "return await call_next(request)", so everything before it runs as one
   step. *)

Flights == {"r1", "r2", "r3"}

ConcPaths == { <<"health">>, <<"api", "upload", "image">> }

\* the slots whose request has not been dispatched yet
Waiting == { f \in Flights : flight[f].pc = "dispatch" }

\* what a step of this section leaves alone besides the rate limiter
FlightFrame ==
    /\ UNCHANGED stackVars
    /\ UNCHANGED apiVars
    /\ UNCHANGED depVars
    /\ UNCHANGED <<clock, healthVars, dataVars>>
    /\ UNCHANGED audit
    /\ UNCHANGED webhook
    /\ UNCHANGED listing

\* a request arrives and waits in the stages outside the rate limiter for its
\* turn on the event loop
Arrive(f, client_ip, path) ==
    /\ flight[f].pc = "none"
    /\ served + Cardinality(Waiting) < MaxArrivals
    /\ flight' = [flight EXCEPT ![f] = [client |-> client_ip, path |-> path,
                                        pc |-> "dispatch"]]
    /\ UNCHANGED rateVars
    /\ FlightFrame

\* dispatch runs from its first line to its 429 or to the await of call_next
Resume(f) ==
    /\ flight[f].pc = "dispatch"
    /\ Dispatch(flight[f].client, flight[f].path)
    /\ flight' = [flight EXCEPT ![f] =
                     IF last'.passed THEN [@ EXCEPT !.pc = "call_next"] ELSE NoFlight]
    /\ FlightFrame

\* the later stages answered: call_next returns and dispatch returns its result
CallNextReturns(f) ==
    /\ flight[f].pc = "call_next"
    /\ flight' = [flight EXCEPT ![f] = NoFlight]
    /\ UNCHANGED rateVars
    /\ FlightFrame

ConcNext ==
    \/ \E f \in Flights, c \in Clients, p \in ConcPaths : Arrive(f, c, p)
    \/ \E f \in Flights : Resume(f)
    \/ \E f \in Flights : CallNextReturns(f)
    \/ Tick

----------------------------------------------------------------------------
(* The middleware stack: app/main.py registers the stages with
   app.add_middleware, and a request passes through them to the endpoint and
   its response back out. *)

StackClients == {"10.0.0.1"}

StackPaths ==
    { <<"api", "auth", "login">>,
      <<"api", "upload", "image">>,
      <<"health">> }

Methods == {"GET", "POST", "OPTIONS"}

\* settings.allowed_origins
allowed_origins == {"http://localhost:3000", "http://localhost:3001"}

\* the Origin header of a request; "" is a request without one
Origins == {"", "http://localhost:3000", "http://localhost:9999", "https://evil.example"}

\* urlparse(origin).hostname in ["localhost", "127.0.0.1", "::1"]
LocalHostname(origin) ==
    origin \in {"http://localhost:3000", "http://localhost:3001", "http://localhost:9999"}

\* what the validation stage looks at, besides the method
Shapes ==
    { [content_length_over |-> a, content_type_ok |-> b, query_bad |-> c,
       traversal |-> d, header_over |-> e] :
        a \in BOOLEAN, b \in BOOLEAN, c \in BOOLEAN, d \in BOOLEAN, e \in BOOLEAN }

\* the requests of the model: well-formed ones, each single defect, and one
\* with two defects
RequestShapes ==
    { sh \in Shapes :
        \/ Cardinality({f \in {"content_length_over", "query_bad", "traversal", "header_over"} :
                            sh[f]} \cup (IF sh.content_type_ok THEN {} ELSE {"ct"})) <= 1
        \/ (sh.content_length_over /\ sh.query_bad /\ sh.content_type_ok
              /\ ~sh.traversal /\ ~sh.header_over) }

\* the statuses an endpoint answers with
EndpointStatuses == {200, 401}

\* (a variant of add_middleware that puts the stage added last innermost)
AddMiddlewareLast(user_middleware, stage) == Append(user_middleware, stage)

\* Starlette's app.add_middleware: self.user_middleware.insert(0, ...)
AddMiddleware(user_middleware, stage) == <<stage>> \o user_middleware

\* the add_middleware calls of app/main.py, in the order they are made
Registered(env) ==
    <<"logging", "security", "gzip">>
        \o (IF env = "production" THEN <<"trustedhost">> ELSE <<>>)
        \o <<"validation", "ratelimit", "auth", "cors">>

RECURSIVE AddAll(_, _)
AddAll(user_middleware, stages) ==
    IF stages = <<>>
    THEN user_middleware
    ELSE AddAll(AddMiddleware(user_middleware, Head(stages)), Tail(stages))

\* app.user_middleware once main.py is imported; Starlette wraps the router in
\* reversed(user_middleware), so its first entry is the outermost stage
MiddlewareStack(env) == AddAll(<<>>, Registered(env))

\* RequestValidationMiddleware.dispatch: the status it answers with, 0 when
\* it calls the next stage
ValidationStatus(r) ==
    IF r.shape.content_length_over THEN 413
    ELSE IF r.method \in {"POST", "PUT", "PATCH"} /\ ~r.shape.content_type_ok THEN 415
    ELSE IF r.shape.query_bad THEN 400
    ELSE IF r.shape.traversal THEN 400
    ELSE IF r.shape.header_over THEN 431
    ELSE 0

\* AdvancedCORSMiddleware.is_allowed_origin
IsAllowedOrigin(origin, env) ==
    \/ origin \in allowed_origins
    \/ (env = "development" /\ LocalHostname(origin))

\* AdvancedCORSMiddleware.dispatch: the status of its answer to a preflight,
\* 0 when it calls the next stage
CorsStatus(r, env) ==
    IF r.method = "OPTIONS"
    THEN IF r.origin # "" /\ IsAllowedOrigin(r.origin, env) THEN 200 ELSE 403
    ELSE 0

\* the status a stage other than the rate limiter answers with on the way in,
\* 0 when it calls the next stage; TrustedHostMiddleware is given
\* allowed_hosts ["*"] (settings has no allowed_hosts) and lets every host by
InboundStatus(stage, r, env) ==
    CASE stage = "validation" -> ValidationStatus(r)
      [] stage = "cors" -> CorsStatus(r, env)
      [] OTHER -> 0

\* response.headers[name] = value
SetHeader(hs, name, value) == { h \in hs : h[1] # name } \cup { <<name, value>> }

\* del response.headers[name]
DelHeader(hs, name) == { h \in hs : h[1] # name }

\* name in response.headers
HasHeader(hs, name) == \E h \in hs : h[1] = name

\* response.headers.get(name); "" stands for None
GetHeader(hs, name) ==
    IF HasHeader(hs, name) THEN (CHOOSE h \in hs : h[1] = name)[2] ELSE ""

\* str.startswith for a pattern without a trailing slash ("/health"), taken
\* segment by segment
StartsWithSegments(path, pattern) ==
    /\ Len(path) >= Len(pattern)
    /\ SubSeq(path, 1, Len(pattern)) = pattern

\* StructuredLoggingMiddleware.excluded_paths
logging_excluded_paths ==
    { <<"health">>, <<"metrics">>, <<"docs">>, <<"redoc">>, <<"openapi.json">> }

\* StructuredLoggingMiddleware.sensitive_paths
sensitive_paths == { <<"api", "auth">>, <<"api", "users">>, <<"api", "payment">> }

\* any(request.url.path.startswith(path) for path in self.excluded_paths)
LoggingExcluded(path) ==
    \E p \in logging_excluded_paths : StartsWithSegments(path, p)

\* the finally block of StructuredLoggingMiddleware.dispatch: the lines it
\* logs, each <<level, message, status_code>>; status 0 is "response is None"
\* (call_next raised)
LogLines(path, status) ==
    LET status_code == IF status # 0 THEN status ELSE 500
        is_sensitive == \E p \in sensitive_paths : StartsWith(path, p)
        line == IF status # 0 /\ status >= 500
                THEN <<"error", "Server error", status_code>>
                ELSE IF status # 0 /\ status >= 400
                THEN <<"warning", "Client error", status_code>>
                ELSE IF is_sensitive
                THEN <<"info", "Sensitive operation", status_code>>
                ELSE <<"info", "Request processed", status_code>>
        event == IF status # 0 /\ status = 401
                 THEN << <<"warning", "Authentication failure", status>> >>
                 ELSE IF status # 0 /\ status = 403
                 THEN << <<"warning", "Authorization failure", status>> >>
                 ELSE IF status # 0 /\ status = 429
                 THEN << <<"warning", "Rate limit exceeded", status>> >>
                 ELSE <<>>
    IN <<line>> \o event

\* StructuredLoggingMiddleware.dispatch once call_next returned or raised
LoggingLogs(path, status) ==
    IF LoggingExcluded(path) THEN <<>> ELSE LogLines(path, status)

\* SecurityHeadersMiddleware.dispatch after call_next, for the headers the
\* model follows
SecurityHeaders(path, hs, env) ==
    LET hsts == IF env = "production"
                THEN SetHeader(hs, "Strict-Transport-Security",
                               "max-age=63072000; includeSubDomains; preload")
                ELSE hs
        std == SetHeader(SetHeader(hsts, "X-Content-Type-Options", "nosniff"),
                         "X-XSS-Protection", "0")
        no_server == IF HasHeader(std, "Server") THEN DelHeader(std, "Server") ELSE std
        no_powered == IF HasHeader(no_server, "X-Powered-By")
                      THEN DelHeader(no_server, "X-Powered-By")
                      ELSE no_server
    IN IF StartsWith(path, <<"api", "auth">>) \/ StartsWith(path, <<"api", "users">>)
       THEN SetHeader(SetHeader(SetHeader(no_powered, "Cache-Control",
                                          "no-store, no-cache, must-revalidate, private"),
                                "Pragma", "no-cache"),
                      "Expires", "0")
       ELSE no_powered

\* AuthMiddleware.dispatch after call_next, for the headers the model follows
AuthHeaders(hs, env) ==
    LET std == SetHeader(SetHeader(hs, "X-Content-Type-Options", "nosniff"),
                         "X-XSS-Protection", "1; mode=block")
        hsts == IF env = "production"
                THEN SetHeader(std, "Strict-Transport-Security",
                               "max-age=31536000; includeSubDomains; preload")
                ELSE std
    IN SetHeader(hsts, "X-Powered-By", "Reply Pass API")

\* hasattr(request.state, name)
HasAttr(state, name) == \E a \in state : a[1] = name

\* getattr(request.state, name, default)
GetAttr(state, name, default) ==
    IF HasAttr(state, name) THEN (CHOOSE a \in state : a[1] = name)[2] ELSE default

\* AuthMiddleware.dispatch after call_next: the rate limiting headers, when
\* the request carries the state of the rate limiter
RateLimitHeaders(hs, state, current_time) ==
    IF HasAttr(state, "rate_limit_remaining")
    THEN SetHeader(SetHeader(SetHeader(hs,
             "X-RateLimit-Remaining",
                 ToString(GetAttr(state, "rate_limit_remaining", 0))),
             "X-RateLimit-Reset", ToString(current_time + 60)),
             "X-RateLimit-Limit", ToString(GetAttr(state, "rate_limit_total", 60)))
    ELSE hs

\* self.max_age of AdvancedCORSMiddleware
max_age == 86400

\* AdvancedCORSMiddleware.dispatch: the headers of its answer to a preflight
\* from an allowed origin
PreflightHeaders(origin) ==
    { <<"Access-Control-Allow-Origin", origin>>,
      <<"Access-Control-Allow-Credentials", "true">>,
      <<"Access-Control-Max-Age", ToString(max_age)>>,
      <<"Vary", "Origin, Access-Control-Request-Headers">> }

\* AdvancedCORSMiddleware.dispatch after call_next
CorsHeaders(origin, hs, env) ==
    IF origin # "" /\ IsAllowedOrigin(origin, env)
    THEN SetHeader(SetHeader(SetHeader(hs, "Access-Control-Allow-Origin", origin),
                             "Access-Control-Allow-Credentials", "true"),
                   "Vary", "Origin")
    ELSE hs

\* the "error" of the JSON body RequestValidationMiddleware answers with
ValidationError(status) ==
    CASE status = 413 -> "Request too large"
      [] status = 415 -> "Unsupported media type"
      [] status = 400 -> "Invalid request"
      [] status = 431 -> "Header too large"
      [] OTHER -> ""

\* the body and the headers of the answer a stage other than the rate limiter
\* gives on the way in
InboundBody(stage, status) ==
    CASE stage = "validation" -> ValidationError(status)
      [] stage = "cors" -> (IF status = 200 THEN "OK" ELSE "CORS preflight rejected")
      [] OTHER -> ""

InboundHeaders(stage, r, status) ==
    IF stage = "cors" /\ status = 200 THEN PreflightHeaders(r.origin) ELSE {}

\* request.state as the stages outside the rate limiter find it once
\* call_next returned: what dispatch has put there, if the request reached it
RequestState ==
    IF \E i \in DOMAIN inbound : inbound[i] = "ratelimit" THEN last.state ELSE {}

\* what a stage does to the headers of the response once call_next returned
OutboundHeaders(stage, r, hs, env) ==
    CASE stage = "security" -> SecurityHeaders(r.path, hs, env)
      [] stage = "auth" -> AuthHeaders(hs, env)
      [] stage = "cors" -> CorsHeaders(r.origin, hs, env)
      [] OTHER -> hs

\* a client sends a request
NewRequest(r) ==
    /\ phase \in {"idle", "done"}
    /\ served < StackMaxRequests
    /\ req' = r
    /\ phase' = "in"
    /\ depth' = 1
    /\ inbound' = <<>>
    /\ outbound' = <<>>
    /\ resp' = NoResp
    /\ headers' = {}
    /\ content' = ""
    /\ logs' = <<>>
    /\ UNCHANGED environment
    /\ UNCHANGED rateVars
    /\ UNCHANGED apiVars
    /\ UNCHANGED depVars
    /\ UNCHANGED coreVars

\* the part of a stage's dispatch before call_next, for every stage but the
\* rate limiter: it answers itself or calls the next stage
EnterStage ==
    /\ phase = "in"
    /\ depth <= Len(MiddlewareStack(environment))
    /\ MiddlewareStack(environment)[depth] # "ratelimit"
    /\ LET stage == MiddlewareStack(environment)[depth]
           answer == InboundStatus(stage, req, environment)
       IN /\ inbound' = Append(inbound, stage)
          /\ IF answer # 0
             THEN /\ resp' = [status |-> answer, by |-> stage]
                  /\ headers' = InboundHeaders(stage, req, answer)
                  /\ content' = InboundBody(stage, answer)
                  /\ phase' = IF depth = 1 THEN "done" ELSE "out"
                  /\ depth' = depth - 1
             ELSE /\ resp' = resp
                  /\ headers' = headers
                  /\ content' = content
                  /\ phase' = "in"
                  /\ depth' = depth + 1
    /\ UNCHANGED <<environment, req, outbound, logs>>
    /\ UNCHANGED rateVars
    /\ UNCHANGED apiVars
    /\ UNCHANGED depVars
    /\ UNCHANGED coreVars

\* RateLimitMiddleware.dispatch as a stage of the stack
EnterRateLimit ==
    /\ phase = "in"
    /\ depth <= Len(MiddlewareStack(environment))
    /\ MiddlewareStack(environment)[depth] = "ratelimit"
    /\ Dispatch(req.client, req.path)
    /\ inbound' = Append(inbound, "ratelimit")
    /\ IF last'.passed
       THEN /\ resp' = resp
            /\ headers' = headers
            /\ content' = content
            /\ phase' = "in"
            /\ depth' = depth + 1
       ELSE /\ resp' = [status |-> last'.status, by |-> "ratelimit"]
            /\ headers' = { <<"Retry-After", ToString(last'.retry_after)>> }
            /\ content' = last'.error
            /\ phase' = IF depth = 1 THEN "done" ELSE "out"
            /\ depth' = depth - 1
    /\ UNCHANGED <<environment, req, outbound, logs>>
    /\ UNCHANGED apiVars
    /\ UNCHANGED depVars
    /\ UNCHANGED coreVars

\* the headers a route handler can put on its response: none, or some that
\* name the server
HandlerHeaders == { {}, { <<"Server", "uvicorn">>, <<"X-Powered-By", "FastAPI">> } }

\* the route handler answers, or raises an HTTPException that the exception
\* handlers of the application turn into a response
Handler(status, hs) ==
    /\ phase = "in"
    /\ depth = Len(MiddlewareStack(environment)) + 1
    /\ inbound' = Append(inbound, "endpoint")
    /\ resp' = [status |-> status, by |-> "endpoint"]
    /\ headers' = hs
    /\ content' = ""
    /\ phase' = "out"
    /\ depth' = depth - 1
    /\ UNCHANGED <<environment, req, outbound, logs>>
    /\ UNCHANGED rateVars
    /\ UNCHANGED apiVars
    /\ UNCHANGED depVars
    /\ UNCHANGED coreVars

\* the route handler answers with no header of its own
Endpoint(status) == Handler(status, {})

\* the route handler raises an exception that is no HTTPException: no
\* response is made, the exception goes up through the stages
HandlerRaises ==
    /\ phase = "in"
    /\ depth = Len(MiddlewareStack(environment)) + 1
    /\ inbound' = Append(inbound, "endpoint")
    /\ phase' = "raise"
    /\ depth' = depth - 1
    /\ UNCHANGED <<environment, req, outbound, resp, headers, content, logs>>
    /\ UNCHANGED rateVars
    /\ UNCHANGED apiVars
    /\ UNCHANGED depVars
    /\ UNCHANGED coreVars

\* call_next raises in a stage: the rest of its dispatch is skipped, but for
\* the finally block of the logging stage
Propagate ==
    /\ phase = "raise"
    /\ depth >= 1
    /\ logs' = IF MiddlewareStack(environment)[depth] = "logging"
               THEN logs \o LoggingLogs(req.path, 0)
               ELSE logs
    /\ depth' = depth - 1
    /\ UNCHANGED <<environment, req, phase, inbound, outbound, resp, headers, content>>
    /\ UNCHANGED rateVars
    /\ UNCHANGED apiVars
    /\ UNCHANGED depVars
    /\ UNCHANGED coreVars

\* ServerErrorMiddleware, outside every registered stage, answers with the
\* handler registered for 500 (internal_error_handler)
ServerError ==
    /\ phase = "raise"
    /\ depth = 0
    /\ resp' = [status |-> 500, by |-> "server_error"]
    /\ headers' = {}
    /\ content' = "Internal server error"
    /\ phase' = "done"
    /\ UNCHANGED <<environment, req, depth, inbound, outbound, logs>>
    /\ UNCHANGED rateVars
    /\ UNCHANGED apiVars
    /\ UNCHANGED depVars
    /\ UNCHANGED coreVars

\* the part of a stage's dispatch after call_next returned
LeaveStage ==
    /\ phase = "out"
    /\ depth >= 1
    /\ outbound' = Append(outbound, MiddlewareStack(environment)[depth])
    /\ headers' =
         LET stage == MiddlewareStack(environment)[depth]
             hs == OutboundHeaders(stage, req, headers, environment)
         IN  IF stage = "auth" THEN RateLimitHeaders(hs, RequestState, now) ELSE hs
    /\ logs' = IF MiddlewareStack(environment)[depth] = "logging"
               THEN logs \o LoggingLogs(req.path, resp.status)
               ELSE logs
    /\ depth' = depth - 1
    /\ phase' = IF depth = 1 THEN "done" ELSE "out"
    /\ UNCHANGED <<environment, req, inbound, resp, content>>
    /\ UNCHANGED rateVars
    /\ UNCHANGED apiVars
    /\ UNCHANGED depVars
    /\ UNCHANGED coreVars

StackNext ==
    \/ \E c \in StackClients, m \in Methods, p \in StackPaths, o \in Origins,
          sh \in RequestShapes :
            NewRequest([client |-> c, path |-> p, method |-> m, origin |-> o, shape |-> sh])
    \/ EnterStage
    \/ EnterRateLimit
    \/ \E st \in EndpointStatuses : Endpoint(st)
    \/ LeaveStage

\* the requests and the handler outcomes followed for the responses and the
\* log lines: a sensitive path, a root-level authentication path and a path
\* the logging stage skips; well-formed requests and one the validation refuses
PipelinePaths ==
    { <<"api", "auth", "login">>,
      <<"auth", "verify">>,
      <<"health">> }

PipelineShapes ==
    { sh \in RequestShapes :
        /\ ~sh.content_length_over /\ sh.content_type_ok
        /\ ~sh.traversal /\ ~sh.header_over }

HandlerStatuses == {200, 401, 500}

PipelineNext ==
    \/ \E c \in StackClients, m \in Methods, p \in PipelinePaths, o \in Origins,
          sh \in PipelineShapes :
            NewRequest([client |-> c, path |-> p, method |-> m, origin |-> o, shape |-> sh])
    \/ EnterStage
    \/ EnterRateLimit
    \/ \E st \in HandlerStatuses, hs \in HandlerHeaders : Handler(st, hs)
    \/ HandlerRaises
    \/ LeaveStage
    \/ Propagate
    \/ ServerError

----------------------------------------------------------------------------
(* The authentication API: POST /auth/register and POST /auth/reset-password
   (app/api/auth.py). A handler makes its calls to the identity provider and
   to the users table without suspending, so each is one step; what the two
   services answer is an input of the step. *)

Emails == {"ann@example.com", "bob@example.com"}

HTTP_201_CREATED == 201
HTTP_400_BAD_REQUEST == 400
HTTP_409_CONFLICT == 409
HTTP_500_INTERNAL_SERVER_ERROR == 500

\* supabase.auth.sign_up: the account is created, or the answer carries no
\* user, or AuthApiError is raised (with "already"/"exists" in its text, or
\* without), or another exception is raised
SignUpOutcomes == {"created", "no_user", "already", "auth_error", "error"}

\* supabase.table("users").insert(...).execute(): rows come back, or none
\* do, or the call raises
InsertOutcomes == {"ok", "empty", "error"}

\* supabase.auth.admin.delete_user: done, or AuthApiError, or another exception
DeleteOutcomes == {"ok", "auth_error", "error"}

\* supabase.auth.reset_password_email: returns, or raises
ResetOutcomes == {"sent", "auth_error", "error"}

\* the exception a failed call raises
Raised(outcome) ==
    CASE outcome \in {"already", "auth_error"} ->
            [status |-> 0, detail |-> outcome, kind |-> "AuthApiError"]
      [] outcome \in {"error", "empty"} ->
            [status |-> 0, detail |-> outcome, kind |-> "Exception"]
      [] OTHER -> NoException

HTTPException(status, detail) ==
    [status |-> status, detail |-> detail, kind |-> "HTTPException"]

\* isinstance(exception, cls): AuthApiError and HTTPException are Exceptions
IsInstance(exc, cls) == exc.kind # "" /\ (cls = "Exception" \/ exc.kind = cls)

\* (a variant of the rollback's handler that catches nothing)
RollbackCatchesNothing(exc) == FALSE

\* "except Exception as rollback_error" around delete_user
RollbackCatches(exc) == IsInstance(exc, "Exception")

\* (a variant of the profile step that misses an insert returning no rows)
ProfileRaisedOnly(insert) == insert = "error"

\* the profile step raised: the insert raised, or "if not
\* profile_response.data: raise Exception"
ProfileFailed(insert) == insert \in {"error", "empty"}

\* the inner try of register_user once the account exists: the number of
\* delete_user calls it makes and the exception it ends with (none when the
\* profile row was inserted)
ProfileStep(insert, rollback) ==
    IF ~ProfileFailed(insert)
    THEN [delete_calls |-> 0, exc |-> NoException]
    ELSE [delete_calls |-> 1,
          exc |-> IF Raised(rollback).kind # "" /\ ~RollbackCatches(Raised(rollback))
                  THEN Raised(rollback)
                  ELSE HTTPException(HTTP_500_INTERNAL_SERVER_ERROR,
                                     "User registration failed: profile creation error")]

\* the body of the outer try of register_user: what it raises, if anything
RegisterBody(sign_up, insert, rollback) ==
    CASE sign_up = "created" -> ProfileStep(insert, rollback)
      [] sign_up = "no_user" ->
            [delete_calls |-> 0,
             exc |-> HTTPException(HTTP_400_BAD_REQUEST, "User registration failed")]
      [] OTHER -> [delete_calls |-> 0, exc |-> Raised(sign_up)]

\* UserResponse(id=..., email=..., email_confirmed_at=..., created_at=...):
\* built from the provider's user, or a validation error when a field is not
\* of the declared type (created_at: str)
UserResponseOutcomes == {"ok", "error"}

\* the lines of the outer try after the inner one: the response is built
\* when the profile step raised nothing, and what building it raises is
\* raised in the outer try
PrepareResponse(body, user_response) ==
    IF body.exc.kind = "" /\ user_response # "ok"
    THEN [delete_calls |-> body.delete_calls, exc |-> Raised(user_response)]
    ELSE body

\* the except clauses of the outer try, in their order
RegisterAnswer(exc) ==
    IF exc.kind = ""
    THEN [status |-> HTTP_201_CREATED,
          detail |-> "Registration successful. Please check your email for confirmation."]
    ELSE IF IsInstance(exc, "AuthApiError")
    THEN IF exc.detail = "already"
         THEN [status |-> HTTP_409_CONFLICT,
               detail |-> "A user with this email already exists"]
         ELSE [status |-> HTTP_400_BAD_REQUEST, detail |-> "Registration failed"]
    ELSE IF IsInstance(exc, "HTTPException")
    THEN [status |-> exc.status, detail |-> exc.detail]
    ELSE [status |-> HTTP_500_INTERNAL_SERVER_ERROR,
          detail |-> "User registration failed due to internal error"]

\* str(exc) of an HTTPException: the status, a colon and the detail
StrOfHTTPException(answer) ==
    CASE answer.detail = "User registration failed" -> "400: User registration failed"
      [] answer.detail = "Registration failed" -> "400: Registration failed"
      [] OTHER -> "400: "

\* the "detail" of the body the client reads: the application's handlers
\* for the statuses 400, 401, 403 and 404 write their own, every other
\* HTTPException, one of status 500 too, keeps the detail it was raised
\* with (the handler registered for 500 serves uncaught exceptions only)
ClientVisible(answer) ==
    CASE answer.status = 400 -> StrOfHTTPException(answer)
      [] answer.status = 401 -> "Authentication required"
      [] answer.status = 403 -> "Insufficient permissions"
      [] answer.status = 404 -> "Resource not found"
      [] OTHER -> answer.detail

\* register_user
RegisterUser(email, sign_up, insert, rollback, user_response) ==
    \* the identity provider creates an account only for a new address, and
    \* reports a duplicate only for a known one
    /\ sign_up = "created" => email \notin idp_users
    /\ sign_up = "already" => email \in idp_users
    /\ LET body == PrepareResponse(RegisterBody(sign_up, insert, rollback), user_response)
           answer == RegisterAnswer(body.exc)
           created == sign_up = "created"
           deleted == created /\ body.delete_calls > 0 /\ rollback = "ok"
       IN /\ idp_users' = IF created /\ ~deleted THEN idp_users \cup {email} ELSE idp_users
          /\ profiles' = IF created /\ insert = "ok" THEN profiles \cup {email} ELSE profiles
          /\ api' = [status |-> answer.status, op |-> "register", email |-> email,
                     sign_up |-> sign_up,
                     insert |-> IF created THEN insert ELSE "",
                     rollback |-> IF created /\ body.delete_calls > 0 THEN rollback ELSE "",
                     delete_calls |-> body.delete_calls,
                     detail |-> answer.detail,
                     visible |-> ClientVisible(answer)]
    /\ UNCHANGED rateVars
    /\ UNCHANGED stackVars
    /\ UNCHANGED depVars
    /\ UNCHANGED coreVars

GenericResetMessage ==
    "If an account with this email exists, a password reset link has been sent"

\* (a variant of the reset handler that lets a failure show)
ResetAnswerLeaky(outcome) ==
    IF outcome = "sent"
    THEN [status |-> 200, detail |-> GenericResetMessage]
    ELSE [status |-> HTTP_400_BAD_REQUEST, detail |-> "Password reset failed"]

\* request_password_reset: the try and its "except Exception"
ResetAnswer(outcome) ==
    IF ~IsInstance(Raised(outcome), "Exception")
    THEN [status |-> 200, detail |-> GenericResetMessage]
    ELSE [status |-> 200, detail |-> GenericResetMessage]

\* request_password_reset
RequestPasswordReset(email, outcome) ==
    /\ api' = [status |-> ResetAnswer(outcome).status, op |-> "reset", email |-> email,
               sign_up |-> "", insert |-> "", rollback |-> outcome, delete_calls |-> 0,
               detail |-> ResetAnswer(outcome).detail,
               visible |-> ClientVisible(ResetAnswer(outcome))]
    /\ UNCHANGED <<idp_users, profiles>>
    /\ UNCHANGED rateVars
    /\ UNCHANGED stackVars
    /\ UNCHANGED depVars
    /\ UNCHANGED coreVars

HTTP_404_NOT_FOUND == 404

\* supabase.auth.verify_otp: a response with a user and a session, one without
\* a user, one without a session, an AuthApiError whose text has "invalid" or
\* "expired", one whose text has "not found", another AuthApiError, or another
\* exception
VerifyOutcomes ==
    {"verified", "no_user", "no_session", "invalid", "not_found", "auth_error", "error"}

\* the exception a failed verify_otp raises
VerifyRaised(outcome) ==
    CASE outcome \in {"invalid", "not_found", "auth_error"} ->
            [status |-> 0, detail |-> outcome, kind |-> "AuthApiError"]
      [] outcome = "error" ->
            [status |-> 0, detail |-> outcome, kind |-> "Exception"]
      [] OTHER -> NoException

\* the body of the try of confirm_email: what it raises, if anything
ConfirmBody(verify_otp) ==
    IF verify_otp \in {"no_user", "no_session"}
    THEN HTTPException(HTTP_400_BAD_REQUEST, "Email confirmation failed")
    ELSE VerifyRaised(verify_otp)

\* the except clauses of confirm_email, in their order: AuthApiError, then
\* Exception
ConfirmAnswer(exc) ==
    IF exc.kind = ""
    THEN [status |-> 200, detail |-> "Email confirmed successfully"]
    ELSE IF IsInstance(exc, "AuthApiError")
    THEN IF exc.detail = "invalid"
         THEN [status |-> HTTP_400_BAD_REQUEST,
               detail |-> "Invalid or expired confirmation token"]
         ELSE IF exc.detail = "not_found"
         THEN [status |-> HTTP_404_NOT_FOUND, detail |-> "User not found"]
         ELSE [status |-> HTTP_400_BAD_REQUEST, detail |-> "Email confirmation failed"]
    ELSE IF IsInstance(exc, "Exception")
    THEN [status |-> HTTP_500_INTERNAL_SERVER_ERROR,
          detail |-> "Email confirmation failed due to internal error"]
    ELSE [status |-> exc.status, detail |-> exc.detail]

\* confirm_email
ConfirmEmail(email, verify_otp) ==
    /\ api' = [status |-> ConfirmAnswer(ConfirmBody(verify_otp)).status,
               op |-> "confirm", email |-> email,
               sign_up |-> verify_otp, insert |-> "", rollback |-> "", delete_calls |-> 0,
               detail |-> ConfirmAnswer(ConfirmBody(verify_otp)).detail,
               visible |-> ClientVisible(ConfirmAnswer(ConfirmBody(verify_otp)))]
    /\ UNCHANGED <<idp_users, profiles>>
    /\ UNCHANGED rateVars
    /\ UNCHANGED stackVars
    /\ UNCHANGED depVars
    /\ UNCHANGED coreVars

ApiNext ==
    \/ \E e \in Emails, su \in SignUpOutcomes, ins \in InsertOutcomes, rb \in DeleteOutcomes,
          ur \in UserResponseOutcomes :
          RegisterUser(e, su, ins, rb, ur)
    \/ \E e \in Emails, out \in ResetOutcomes : RequestPasswordReset(e, out)
    \/ \E e \in Emails, out \in VerifyOutcomes : ConfirmEmail(e, out)

----------------------------------------------------------------------------
(* The authentication dependencies (app/auth/dependencies.py): the
   current-user resolver get_current_user and the resource-owner gate
   require_user_id. *)

\* the users that hold tokens, and the users whose resources are asked for
UserIds == {"u1"}

ResourceOwners == {"u1", "u2"}

HTTP_401_UNAUTHORIZED == 401
HTTP_403_FORBIDDEN == 403

\* bearer tokens: a signature that verifies under the secret or not; iat
\* absent, a number or not a number; exp absent, passed, or to come; aud absent,
\* "authenticated", or another; sub absent, empty, or a user
Tokens ==
    [signature : {"valid", "invalid"},
     iat : {"absent", "number", "text"},
     exp : {"absent", "past", "future"},
     aud : {"absent", "authenticated", "other"},
     sub : {"absent", ""} \cup UserIds]

\* jwt.decode(token, secret, algorithms=["HS256"], audience="authenticated",
\* options={verify_signature, verify_aud, verify_iat, verify_exp,
\* require_aud, require_exp}): every failure is a JWTError
JwtDecodeFails(token) ==
    \/ token.signature # "valid"
    \/ token.aud = "absent"
    \/ token.exp = "absent"
    \/ token.iat = "text"
    \/ token.exp = "past"
    \/ token.aud # "authenticated"

\* the body of the try of get_current_user: what it raises, if anything
ResolveBody(secret, token) ==
    IF ~secret
    THEN HTTPException(HTTP_500_INTERNAL_SERVER_ERROR, "Authentication configuration error")
    ELSE IF JwtDecodeFails(token)
    THEN [status |-> 0, detail |-> "", kind |-> "JWTError"]
    ELSE IF token.sub \in {"absent", ""}
    THEN HTTPException(HTTP_401_UNAUTHORIZED, "Invalid token: missing user ID")
    ELSE NoException

\* get_current_user: the check of the credentials, the try, and its except
\* clauses in their order
GetCurrentUser(secret, credentials, token) ==
    IF ~credentials
    THEN [status |-> HTTP_401_UNAUTHORIZED, detail |-> "Bearer authentication required",
          user_id |-> ""]
    ELSE LET exc == ResolveBody(secret, token)
         IN IF exc.kind = ""
            THEN [status |-> 200, detail |-> "", user_id |-> token.sub]
            ELSE IF IsInstance(exc, "JWTError")
            THEN [status |-> HTTP_401_UNAUTHORIZED,
                  detail |-> "Invalid authentication token", user_id |-> ""]
            ELSE [status |-> HTTP_500_INTERNAL_SERVER_ERROR,
                  detail |-> "Authentication processing error", user_id |-> ""]

\* a request to an endpoint that depends on get_current_user
ResolveUser(credentials, token) ==
    /\ credentials \/ token = NoToken
    /\ LET user == GetCurrentUser(jwt_secret, credentials, token)
       IN auth' = [status |-> user.status, detail |-> user.detail,
                   credentials |-> credentials, token |-> token,
                   user_id |-> user.user_id]
    /\ UNCHANGED <<jwt_secret, gate, optional>>
    /\ UNCHANGED rateVars
    /\ UNCHANGED stackVars
    /\ UNCHANGED apiVars
    /\ UNCHANGED coreVars

\* the names a gate is built for; a route guarded by the gate built for a
\* name declares the path parameter of that name
FieldNames == {"user_id", "path_user_id"}

\* the query parameter path_user_id of a request: not given, or a value
QueryValues == {"absent"} \cup ResourceOwners

\* the tokens sent to guarded routes: well signed, for the right audience
GateTokens ==
    {t \in Tokens : t.signature = "valid" /\ t.iat = "number" /\ t.aud = "authenticated"}

\* the value FastAPI binds to the parameter path_user_id of user_id_checker:
\* the path parameter of that name if the route declares it, else the query
\* parameter of that name, which is required
BoundPathUserId(user_id_field, path_value, query_value) ==
    IF user_id_field = "path_user_id" THEN path_value ELSE query_value

\* user_id_checker of require_user_id(user_id_field), after its dependency
\* get_current_user and the binding of its parameter
UserIdChecker(user, user_id_field, path_value, query_value) ==
    LET path_user_id == BoundPathUserId(user_id_field, path_value, query_value)
    IN IF user.status # 200
       THEN [status |-> user.status, passed |-> FALSE, detail |-> user.detail]
       ELSE IF path_user_id = "absent"
       THEN \* the request is refused by the framework's validation
            [status |-> 422, passed |-> FALSE,
             detail |-> "Field required"]
       ELSE IF user.user_id # path_user_id
       THEN [status |-> HTTP_403_FORBIDDEN, passed |-> FALSE,
             detail |-> "Access denied: can only access your own resources"]
       ELSE [status |-> 200, passed |-> TRUE, detail |-> ""]

\* a request to a route guarded by Depends(require_user_id(user_id_field))
GateRequest(user_id_field, token, path_value, query_value) ==
    /\ LET user == GetCurrentUser(jwt_secret, TRUE, token)
           checked == UserIdChecker(user, user_id_field, path_value, query_value)
       IN /\ auth' = [status |-> user.status, detail |-> user.detail,
                      credentials |-> TRUE, token |-> token,
                      user_id |-> user.user_id]
          /\ gate' = [status |-> checked.status, passed |-> checked.passed,
                      detail |-> checked.detail, user_id |-> user.user_id,
                      user_id_field |-> user_id_field, path_value |-> path_value,
                      query_value |-> query_value]
    /\ UNCHANGED <<jwt_secret, optional>>
    /\ UNCHANGED rateVars
    /\ UNCHANGED stackVars
    /\ UNCHANGED apiVars
    /\ UNCHANGED coreVars

\* what a call of get_current_user raises: it returns the context, or raises
\* the HTTPException of its answer
RaisedByGetCurrentUser(user) ==
    IF user.status = 200 THEN NoException ELSE HTTPException(user.status, user.detail)

\* (a variant of the optional resolver that catches the decoder's error only)
OptionalCatchesJWTError(exc) == IsInstance(exc, "JWTError")

\* "except HTTPException" of get_current_user_optional
OptionalCatches(exc) == IsInstance(exc, "HTTPException")

\* get_current_user_optional: what it returns and the user of the context, or
\* the kind of the exception that leaves it
GetCurrentUserOptional(secret, credentials, token) ==
    IF ~credentials
    THEN [user_id |-> "", returned |-> "None", raised |-> ""]
    ELSE LET user == GetCurrentUser(secret, credentials, token)
             exc == RaisedByGetCurrentUser(user)
         IN IF exc.kind = ""
            THEN [user_id |-> user.user_id, returned |-> "context", raised |-> ""]
            ELSE IF OptionalCatches(exc)
            THEN [user_id |-> "", returned |-> "None", raised |-> ""]
            ELSE [user_id |-> "", returned |-> "", raised |-> exc.kind]

\* a request to an endpoint that depends on get_current_user_optional
ResolveUserOptional(credentials, token) ==
    /\ credentials \/ token = NoToken
    /\ LET context == GetCurrentUserOptional(jwt_secret, credentials, token)
       IN optional' = [credentials |-> credentials, token |-> token,
                       user_id |-> context.user_id, returned |-> context.returned,
                       raised |-> context.raised]
    /\ UNCHANGED <<jwt_secret, auth, gate>>
    /\ UNCHANGED rateVars
    /\ UNCHANGED stackVars
    /\ UNCHANGED apiVars
    /\ UNCHANGED coreVars

OptionalNext ==
    \E credentials \in BOOLEAN, token \in Tokens \cup {NoToken} :
        ResolveUserOptional(credentials, token)

DepNext ==
    \/ \E credentials \in BOOLEAN, token \in Tokens \cup {NoToken} :
          ResolveUser(credentials, token)
    \/ \E f \in FieldNames, token \in GateTokens, pv \in ResourceOwners, qv \in QueryValues :
          GateRequest(f, token, pv, qv)

----------------------------------------------------------------------------
(* The health checker (app/core/health.py): check_readiness and
   check_comprehensive of one HealthChecker, its probes and its cache. A
   check is awaited to its end before the next one starts. *)

HEALTHY == "healthy"
DEGRADED == "degraded"
UNHEALTHY == "unhealthy"

\* the clock of the health model advances by half the cache duration
HealthTickStep == CacheDurationSeconds \div 2

\* what a probe meets: the query of the identity service or of the database
\* returns data, returns none, or raises
CriticalConditions == {"data", "no_data", "raises"}

\* the AI or payment client answers its health check, fails it (as it does
\* unasked when its key is a placeholder), or raises
OptionalConditions == {"ok", "failed", "raises"}

\* _check_supabase_connectivity
CheckSupabaseConnectivity(cond) ==
    [status |-> CASE cond = "data" -> HEALTHY
                  [] cond = "no_data" -> DEGRADED
                  [] OTHER -> UNHEALTHY,
     error |-> IF cond = "data" THEN "" ELSE cond,
     name |-> "supabase"]

\* _check_database_connectivity
CheckDatabaseConnectivity(cond) ==
    [status |-> CASE cond = "data" -> HEALTHY
                  [] cond = "no_data" -> DEGRADED
                  [] OTHER -> UNHEALTHY,
     error |-> IF cond = "data" THEN "" ELSE cond,
     name |-> "database"]

\* _check_gemini_api_connectivity
CheckGeminiApiConnectivity(cond) ==
    [status |-> CASE cond = "ok" -> HEALTHY
                  [] cond = "failed" -> DEGRADED
                  [] OTHER -> UNHEALTHY,
     error |-> IF cond = "ok" THEN "" ELSE cond,
     name |-> "gemini_api"]

\* _check_stripe_connectivity
CheckStripeConnectivity(cond) ==
    [status |-> CASE cond = "ok" -> HEALTHY
                  [] cond = "failed" -> DEGRADED
                  [] OTHER -> UNHEALTHY,
     error |-> IF cond = "ok" THEN "" ELSE cond,
     name |-> "stripe_api"]

\* (a cache probe that finds a cache in service)
CheckRedisInService == [status |-> HEALTHY, error |-> "", name |-> "redis"]

\* _check_redis_connectivity: the cache is not implemented yet
CheckRedisConnectivity ==
    [status |-> DEGRADED, error |-> "Redis not yet implemented", name |-> "redis"]

\* isinstance(result, Exception) on a gathered result; every probe catches
\* what it meets, so the probes above hand over results only
IsException(result) == result.name = "Exception"

\* (a variant of the readiness step that lets "degraded" replace any status)
ReadinessStepLoose(overall_status, result) ==
    IF IsException(result) THEN UNHEALTHY
    ELSE IF result.status = UNHEALTHY THEN UNHEALTHY
    ELSE IF result.status = DEGRADED THEN DEGRADED
    ELSE overall_status

\* one round of the loop of check_readiness over the gathered results
ReadinessStep(overall_status, result) ==
    IF IsException(result) THEN UNHEALTHY
    ELSE IF result.status = UNHEALTHY THEN UNHEALTHY
    ELSE IF result.status = DEGRADED /\ overall_status = HEALTHY THEN DEGRADED
    ELSE overall_status

\* one round of the loop of check_comprehensive over the gathered results
ComprehensiveStep(overall_status, result) ==
    IF IsException(result)
    THEN IF result.error \notin {"gemini", "stripe"} THEN UNHEALTHY ELSE overall_status
    ELSE IF result.name \in {"supabase", "database"} /\ result.status = UNHEALTHY
    THEN UNHEALTHY
    ELSE IF result.status = DEGRADED /\ overall_status = HEALTHY THEN DEGRADED
    ELSE overall_status

RECURSIVE ReadinessStatus(_, _)
\* the loop of check_readiness, from overall_status
ReadinessStatus(overall_status, results) ==
    IF results = <<>> THEN overall_status
    ELSE ReadinessStatus(ReadinessStep(overall_status, Head(results)), Tail(results))

RECURSIVE ComprehensiveStatus(_, _)
\* the loop of check_comprehensive, from overall_status
ComprehensiveStatus(overall_status, results) ==
    IF results = <<>> THEN overall_status
    ELSE ComprehensiveStatus(ComprehensiveStep(overall_status, Head(results)),
                             Tail(results))

\* (a variant of _is_cached with half the duration)
IsCachedHalf(c, key, current_time) ==
    /\ key \in DOMAIN c
    /\ current_time - c[key].cached_at < CacheDurationSeconds \div 2

\* _is_cached: the key is cached and younger than cache_duration
IsCached(c, key, current_time) ==
    /\ key \in DOMAIN c
    /\ current_time - c[key].cached_at < CacheDurationSeconds

\* _get_cached: the cached result without its cached_at
GetCached(c, key) == c[key].result

\* _cache_result
CacheResult(c, key, result, current_time) ==
    [k \in DOMAIN c \cup {key} |->
        IF k = key THEN [result |-> result, cached_at |-> current_time] ELSE c[k]]

\* the history of the results computed, kept beside the cache
Computed(key) ==
    IF key \in DOMAIN computed
    THEN [result |-> computed[key].result, at |-> computed[key].at, known |-> TRUE]
    ELSE [result |-> NoResult, at |-> 0, known |-> FALSE]

\* a check of one kind by a checker whose _cache is c; its probes, if they
\* run, gather results
CheckWith(c, key, results, overall_status) ==
    /\ checks_done < MaxChecks
    /\ checks_done' = checks_done + 1
    /\ IF IsCached(c, key, clock)
       THEN /\ health' = [kind |-> key, started |-> clock,
                          result |-> GetCached(c, key), probes_run |-> 0,
                          prior |-> Computed(key)]
            /\ cache' = c
            /\ UNCHANGED computed
       ELSE LET health_result == [status |-> overall_status, checks |-> results,
                                  timestamp |-> clock]
            IN /\ cache' = CacheResult(c, key, health_result, clock)
               /\ computed' = [k \in DOMAIN computed \cup {key} |->
                                 IF k = key THEN [result |-> health_result, at |-> clock]
                                 ELSE computed[k]]
               /\ health' = [kind |-> key, started |-> clock, result |-> health_result,
                             probes_run |-> Len(results), prior |-> Computed(key)]
    /\ UNCHANGED clock

\* a check of one kind by the one checker of the model
Check(key, results, overall_status) ==
    /\ CheckWith(cache, key, results, overall_status)
    /\ UNCHANGED webVars
    /\ UNCHANGED dataVars

\* check_readiness
CheckReadiness(supabase, database) ==
    LET results == <<CheckSupabaseConnectivity(supabase),
                     CheckDatabaseConnectivity(database)>>
    IN Check("readiness", results, ReadinessStatus(HEALTHY, results))

\* check_comprehensive
CheckComprehensive(supabase, database, gemini, stripe) ==
    LET results == <<CheckSupabaseConnectivity(supabase),
                     CheckDatabaseConnectivity(database),
                     CheckGeminiApiConnectivity(gemini),
                     CheckStripeConnectivity(stripe),
                     CheckRedisConnectivity>>
    IN Check("comprehensive", results, ComprehensiveStatus(HEALTHY, results))

\* time passes between two checks
HealthTick ==
    /\ clock + HealthTickStep <= MaxHealthTime
    /\ clock' = clock + HealthTickStep
    /\ UNCHANGED healthVars
    /\ UNCHANGED webVars
    /\ UNCHANGED dataVars

\* HealthChecker.__init__: the _cache of a new checker
NewHealthChecker == << >>

\* status_code = 200 if health_result["status"] == "healthy" else 503
HealthStatusCode(health_result) ==
    IF health_result.status = HEALTHY THEN 200 ELSE 503

\* what a health endpoint leaves alone
HealthEndpointFrame ==
    /\ UNCHANGED rateVars
    /\ UNCHANGED <<environment, req, phase, depth, inbound, outbound, headers,
                   content, logs>>
    /\ UNCHANGED apiVars
    /\ UNCHANGED depVars
    /\ UNCHANGED dataVars
    /\ UNCHANGED sideVars

\* GET /health/ready (readiness_check): a HealthChecker is built for the
\* request and asked for its readiness
ReadinessCheck(supabase, database) ==
    LET results == <<CheckSupabaseConnectivity(supabase),
                     CheckDatabaseConnectivity(database)>>
    IN /\ CheckWith(NewHealthChecker, "readiness", results,
                    ReadinessStatus(HEALTHY, results))
       /\ resp' = [status |-> HealthStatusCode(health'.result), by |-> "endpoint"]
       /\ HealthEndpointFrame

\* GET /health/detailed (detailed_health_check)
DetailedHealthCheck(supabase, database, gemini, stripe) ==
    LET results == <<CheckSupabaseConnectivity(supabase),
                     CheckDatabaseConnectivity(database),
                     CheckGeminiApiConnectivity(gemini),
                     CheckStripeConnectivity(stripe),
                     CheckRedisConnectivity>>
    IN /\ CheckWith(NewHealthChecker, "comprehensive", results,
                    ComprehensiveStatus(HEALTHY, results))
       /\ resp' = [status |-> HealthStatusCode(health'.result), by |-> "endpoint"]
       /\ HealthEndpointFrame

HealthApiNext ==
    \/ \E s \in CriticalConditions, d \in CriticalConditions : ReadinessCheck(s, d)
    \/ \E s \in CriticalConditions, d \in CriticalConditions,
          g \in OptionalConditions, p \in OptionalConditions :
          DetailedHealthCheck(s, d, g, p)
    \/ HealthTick

HealthNext ==
    \/ \E s \in CriticalConditions, d \in CriticalConditions : CheckReadiness(s, d)
    \/ \E s \in CriticalConditions, d \in CriticalConditions,
          g \in OptionalConditions, p \in OptionalConditions :
          CheckComprehensive(s, d, g, p)
    \/ HealthTick

----------------------------------------------------------------------------
(* The scoped-session provider get_async_session (app/database.py): a
   session is handed out at the yield, the caller runs its unit of work, and
   the provider resumes when the caller is done. *)

SessionIds == {"s1", "s2", "s3"}

\* how the caller's unit of work ends: it returns, it raises an Exception,
\* or it is cancelled (a BaseException that is no Exception)
Finishes == {"returns", "Exception", "CancelledError"}

\* (a variant of the provider that commits however the caller ended)
ExitCallsCommitAlways(finish, commit_raises) == <<"commit", "close", "close">>

\* the calls the provider makes on the session after the yield: the try, its
\* "except Exception", its finally, and the close of "async with"
ExitCalls(finish, commit_raises) ==
    (CASE finish = "returns" ->
            IF commit_raises THEN <<"commit", "rollback">> ELSE <<"commit">>
       [] finish = "Exception" -> <<"rollback">>
       [] OTHER -> <<>>)
    \o <<"close">> \o <<"close">>

\* what one call does to the transaction of the session: a commit that goes
\* through ends it, a rollback or a close discards what is open
AfterCall(tx, call, commit_raises, rollback_raises) ==
    CASE tx # "open" -> tx
      [] call = "commit" -> IF commit_raises THEN "open" ELSE "committed"
      [] call = "rollback" -> IF rollback_raises THEN "open" ELSE "rolled_back"
      [] OTHER -> "rolled_back"

RECURSIVE AfterCalls(_, _, _, _)
AfterCalls(tx, calls, commit_raises, rollback_raises) ==
    IF calls = <<>> THEN tx
    ELSE AfterCalls(AfterCall(tx, Head(calls), commit_raises, rollback_raises),
                    Tail(calls), commit_raises, rollback_raises)

\* get_async_session up to its yield
GetAsyncSession(s) ==
    /\ sessions[s].state = "unused"
    /\ sessions' = [sessions EXCEPT ![s] =
                       [state |-> "handed", finish |-> "", writes |-> 0, calls |-> <<>>,
                        tx |-> "open", closed |-> FALSE]]
    /\ UNCHANGED <<users, cases, repo>>
    /\ UNCHANGED clock
    /\ UNCHANGED healthVars
    /\ UNCHANGED webVars

\* the caller writes through the session it holds
UnitOfWork(s) ==
    /\ sessions[s].state = "handed"
    /\ sessions[s].writes < MaxWrites
    /\ sessions' = [sessions EXCEPT ![s].writes = @ + 1]
    /\ UNCHANGED <<users, cases, repo>>
    /\ UNCHANGED clock
    /\ UNCHANGED healthVars
    /\ UNCHANGED webVars

\* get_async_session from its yield on, the caller being done
ExitSession(s, finish, commit_raises, rollback_raises) ==
    /\ sessions[s].state = "handed"
    /\ commit_raises => finish = "returns"
    /\ rollback_raises => (finish = "Exception" \/ commit_raises)
    /\ LET calls == ExitCalls(finish, commit_raises)
       IN sessions' = [sessions EXCEPT ![s] =
                          [state |-> "exited", finish |-> finish,
                           writes |-> sessions[s].writes, calls |-> calls,
                           tx |-> AfterCalls(sessions[s].tx, calls, commit_raises,
                                             rollback_raises),
                           closed |-> \E i \in 1..Len(calls) : calls[i] = "close"]]
    /\ UNCHANGED <<users, cases, repo>>
    /\ UNCHANGED clock
    /\ UNCHANGED healthVars
    /\ UNCHANGED webVars

SessionNext ==
    \/ \E s \in SessionIds : GetAsyncSession(s)
    \/ \E s \in SessionIds : UnitOfWork(s)
    \/ \E s \in SessionIds, finish \in Finishes, cr \in BOOLEAN, rr \in BOOLEAN :
          ExitSession(s, finish, cr, rr)

----------------------------------------------------------------------------
(* The repositories (app/repositories) over the users and cases tables
   (app/models), within one session. The store is the database the engine
   of app/database.py connects to: it enforces the foreign key of
   cases.user_id with ON DELETE CASCADE and the NOT NULL columns. limit
   (100) and offset (0) of a listing keep their defaults, which cut nothing
   off the tables of this model, and the order of a listing is left out. *)

\* deleted_at of a case that is not soft-deleted (None)
Null == -1

UserRows == {"u1", "u2"}

CaseIds == {"c1", "c2"}

\* the names a caller passes to create and update
Names == {"", "Case"}

PartnerNames == {"", "Partner"}

MetaKeys == {"a", "b"}

MetaValues == {1, 2}

\* the dicts over these keys and values
Metadatas == UNION {[keys -> MetaValues] : keys \in SUBSET MetaKeys}

EmptyMetadata == [k \in {} |-> 0]

\* Case.is_deleted
IsDeleted(case) == case.deleted_at # Null

\* (a variant of Case.soft_delete that stamps the row every time)
SoftDeleteAlways(case, current_time) == [case EXCEPT !.deleted_at = current_time]

\* Case.soft_delete
SoftDeleteCase(case, current_time) ==
    IF case.deleted_at = Null
    THEN [case EXCEPT !.deleted_at = current_time]
    ELSE case

\* Case.restore
RestoreCase(case) == [case EXCEPT !.deleted_at = Null]

\* (a variant of the listing that always filters nothing out)
UserCasesAll(table, user_id, include_deleted) ==
    {c \in DOMAIN table : table[c].user_id = user_id}

\* the ids of the rows get_user_cases selects
UserCases(table, user_id, include_deleted) ==
    {c \in DOMAIN table :
        /\ table[c].user_id = user_id
        /\ include_deleted \/ table[c].deleted_at = Null}

\* (a variant of the merge that keeps the given dict only)
MergedGivenOnly(old, metadata) == metadata

\* update_metadata: dict(case.case_metadata) updated with metadata, or
\* metadata itself over an empty case_metadata
Merged(old, metadata) ==
    IF DOMAIN old # {}
    THEN [k \in DOMAIN old \cup DOMAIN metadata |->
             IF k \in DOMAIN metadata THEN metadata[k] ELSE old[k]]
    ELSE metadata

\* (a variant of the bulk statement that merges)
BulkValuesMerged(old, metadata) ==
    [k \in DOMAIN old \cup DOMAIN metadata |->
        IF k \in DOMAIN metadata THEN metadata[k] ELSE old[k]]

\* bulk_update_metadata: .values(case_metadata=metadata)
BulkValues(old, metadata) == metadata

\* (a variant of the store without the cascade)
OnDeleteNoAction(table, user_id) == table

\* ForeignKey("users.id", ondelete="CASCADE"): the rows left when a user goes
OnDeleteCascade(table, user_id) ==
    [c \in {d \in DOMAIN table : table[d].user_id # user_id} |-> table[c]]

Put(table, case_id, row) ==
    [c \in DOMAIN table \cup {case_id} |-> IF c = case_id THEN row ELSE table[c]]

Called(op, user_id, case_id, row_before, ok) ==
    [op |-> op, user_id |-> user_id, at |-> clock, case_id |-> case_id,
     include_deleted |-> FALSE, metadata |-> EmptyMetadata, case_ids |-> {},
     row_before |-> row_before, table_before |-> <<>>, ok |-> ok, listed |-> {}]

RepoFrame ==
    /\ UNCHANGED sessions
    /\ UNCHANGED clock
    /\ UNCHANGED healthVars
    /\ UNCHANGED webVars

\* UserRepository.create
CreateUser(user_id) ==
    /\ user_id \notin users
    /\ users' = users \cup {user_id}
    /\ repo' = Called("create_user", user_id, "", NoCase, TRUE)
    /\ UNCHANGED cases
    /\ RepoFrame

\* BaseRepository.delete of a user
DeleteUser(user_id) ==
    /\ users' = users \ {user_id}
    /\ cases' = IF user_id \in users THEN OnDeleteCascade(cases, user_id) ELSE cases
    /\ repo' = [Called("delete_user", user_id, "", NoCase, user_id \in users)
                   EXCEPT !.table_before = cases]
    /\ RepoFrame

\* CaseRepository.create: the row is stored unless the flush fails on the
\* foreign key; Case.__init__ gives it a case_metadata
CreateCase(case_id, user_id, name, partner_name, metadata) ==
    /\ case_id \notin DOMAIN cases
    /\ LET row == [user_id |-> user_id, name |-> name, partner_name |-> partner_name,
                   case_metadata |-> metadata, deleted_at |-> Null]
       IN IF user_id \in users
          THEN /\ cases' = Put(cases, case_id, row)
               /\ repo' = Called("create", user_id, case_id, NoCase, TRUE)
          ELSE /\ UNCHANGED cases
               /\ repo' = Called("create", user_id, case_id, NoCase, FALSE)
    /\ UNCHANGED users
    /\ RepoFrame

\* BaseRepository.update of a case with name= or partner_name=
UpdateCase(case_id, field_name, value) ==
    /\ IF case_id \in DOMAIN cases
       THEN /\ cases' = [cases EXCEPT ![case_id] =
                            IF field_name = "name"
                            THEN [@ EXCEPT !.name = value]
                            ELSE [@ EXCEPT !.partner_name = value]]
            /\ repo' = Called("update", "", case_id, cases[case_id], TRUE)
       ELSE /\ UNCHANGED cases
            /\ repo' = Called("update", "", case_id, NoCase, FALSE)
    /\ UNCHANGED users
    /\ RepoFrame

\* CaseRepository.soft_delete
SoftDelete(case_id) ==
    /\ IF case_id \in DOMAIN cases
       THEN /\ cases' = [cases EXCEPT ![case_id] = SoftDeleteCase(@, clock)]
            /\ repo' = Called("soft_delete", "", case_id, cases[case_id], TRUE)
       ELSE /\ UNCHANGED cases
            /\ repo' = Called("soft_delete", "", case_id, NoCase, FALSE)
    /\ UNCHANGED users
    /\ RepoFrame

\* CaseRepository.restore
Restore(case_id) ==
    /\ IF case_id \in DOMAIN cases
       THEN /\ cases' = [cases EXCEPT ![case_id] = RestoreCase(@)]
            /\ repo' = Called("restore", "", case_id, cases[case_id], TRUE)
       ELSE /\ UNCHANGED cases
            /\ repo' = Called("restore", "", case_id, NoCase, FALSE)
    /\ UNCHANGED users
    /\ RepoFrame

\* CaseRepository.get_user_cases
GetUserCases(user_id, include_deleted) ==
    /\ repo' = [Called("get_user_cases", user_id, "", NoCase, TRUE) EXCEPT
                   !.include_deleted = include_deleted,
                   !.listed = UserCases(cases, user_id, include_deleted)]
    /\ UNCHANGED <<users, cases>>
    /\ RepoFrame

\* CaseRepository.update_metadata
UpdateMetadata(case_id, metadata) ==
    /\ IF case_id \in DOMAIN cases
       THEN /\ cases' = [cases EXCEPT ![case_id].case_metadata = Merged(@, metadata)]
            /\ repo' = [Called("update_metadata", "", case_id, cases[case_id], TRUE)
                           EXCEPT !.metadata = metadata]
       ELSE /\ UNCHANGED cases
            /\ repo' = [Called("update_metadata", "", case_id, NoCase, FALSE)
                           EXCEPT !.metadata = metadata]
    /\ UNCHANGED users
    /\ RepoFrame

\* CaseRepository.bulk_update_metadata
BulkUpdateMetadata(case_ids, metadata) ==
    /\ cases' = [c \in DOMAIN cases |->
                    IF c \in case_ids
                    THEN [cases[c] EXCEPT !.case_metadata = BulkValues(@, metadata)]
                    ELSE cases[c]]
    /\ repo' = [Called("bulk_update_metadata", "", "", NoCase,
                       case_ids \cap DOMAIN cases # {})
                   EXCEPT !.metadata = metadata, !.case_ids = case_ids,
                          !.table_before = cases]
    /\ UNCHANGED users
    /\ RepoFrame

\* time passes between two calls
ClockTick ==
    /\ clock < MaxClock
    /\ clock' = clock + 1
    /\ UNCHANGED dataVars
    /\ UNCHANGED healthVars
    /\ UNCHANGED webVars

\* users, cases created without metadata, soft deletion and listings
CasesNext ==
    \/ \E u \in UserRows : CreateUser(u)
    \/ \E u \in UserRows : DeleteUser(u)
    \/ \E c \in CaseIds, u \in UserRows, n \in Names, p \in PartnerNames :
          CreateCase(c, u, n, p, EmptyMetadata)
    \/ \E c \in CaseIds, f \in {"name", "partner_name"}, v \in Names : UpdateCase(c, f, v)
    \/ \E c \in CaseIds : SoftDelete(c)
    \/ \E c \in CaseIds : Restore(c)
    \/ \E u \in UserRows, d \in BOOLEAN : GetUserCases(u, d)
    \/ ClockTick

\* one user's cases and their metadata
MetadataNext ==
    \/ CreateUser("u1")
    \/ \E c \in CaseIds, m \in Metadatas : CreateCase(c, "u1", "Case", "Partner", m)
    \/ \E c \in CaseIds, m \in Metadatas : UpdateMetadata(c, m)
    \/ \E ids \in SUBSET CaseIds, m \in Metadatas : BulkUpdateMetadata(ids, m)

----------------------------------------------------------------------------
(* The row-level-security audit tool (scripts/verify_rls_policies.py): main
   builds the auditor, audits the tables of the catalog one after the other,
   prints and saves the report and leaves with an exit code.  A query result
   is the sequence of its rows: a row of pg_class is its relrowsecurity, a
   row of pg_policies is the set of the markers its qual and with_check
   contain. *)

\* self.expected_tables, in the order of the dict
expected_tables ==
    << "users", "cases", "personas", "persona_analyses", "conversation_logs",
       "conversation_messages", "generated_replies", "reply_suggestions",
       "feedback_logs", "subscription_plans", "user_subscriptions", "usage_logs" >>

\* requirements.get('requires_user_isolation', True)
requires_user_isolation(table_name) == table_name # "subscription_plans"

\* what the rpc execute_sql does for a query, as <<outcome, rows>>: it raises,
\* or returns rows; the rows of pg_policies may be of a shape the checks
\* cannot read
RlsAnswers ==
    { <<"raises", <<>> >> } \cup { <<"rows", r>> : r \in { <<>>, <<TRUE>>, <<FALSE>> } }

PolicyRows == { {}, {"auth.uid()"}, {"service_role"} }

PolicyAnswers ==
    { <<"raises", <<>> >>, <<"malformed", <<>> >> }
        \cup { <<"rows", r>> : r \in UNION { [1..n -> PolicyRows] : n \in 0..MaxPolicies } }

\* the rows of a well configured table
GoodPolicies == << {"auth.uid()"}, {"service_role"} >>

\* the tables whose configuration varies in the model: the last ones of the
\* catalog, the public-read table among them
Varied ==
    { expected_tables[i] :
        i \in (Len(expected_tables) - MaxVaried + 1)..Len(expected_tables) }

\* _execute_query: the rows of the rpc, or, when it raises, the built-in rows
\* for the tables of the catalog
ExecuteQuery(query, table_name, answer) ==
    IF answer[1] # "raises"
    THEN answer[2]
    ELSE IF query = "pg_class"
         THEN IF \E i \in DOMAIN expected_tables : expected_tables[i] = table_name
              THEN <<TRUE>> ELSE <<>>
         ELSE IF \E i \in DOMAIN expected_tables : expected_tables[i] = table_name
              THEN << {"auth.uid()"} >> ELSE <<>>

\* _check_rls_enabled
CheckRlsEnabled(table_name, answer) ==
    LET result == ExecuteQuery("pg_class", table_name, answer)
    IN  IF result # <<>> THEN result[1] ELSE FALSE

\* _get_table_policies
GetTablePolicies(table_name, answer) ==
    ExecuteQuery("pg_policies", table_name, answer)

\* _check_user_isolation
CheckUserIsolation(policies) ==
    \E i \in DOMAIN policies : "auth.uid()" \in policies[i]

\* _check_service_role_access
CheckServiceRoleAccess(policies) ==
    \E i \in DOMAIN policies : "service_role" \in policies[i]

\* _calculate_security_score
CalculateSecurityScore(table_name, rls_enabled, policies, user_isolation, service_role_access) ==
    LET score ==
            (IF rls_enabled THEN 30 ELSE 0)
          + (IF policies # <<>> THEN 20 ELSE 0)
          + (IF requires_user_isolation(table_name)
             THEN (IF user_isolation THEN 25 ELSE 0)
             ELSE 25)
          + (IF service_role_access THEN 15 ELSE 0)
          + (IF Len(policies) >= 2 THEN 5 ELSE 0)
          + (IF Len(policies) >= 3 THEN 5 ELSE 0)
    IN  IF score < 100 THEN score ELSE 100

\* _audit_table: the security score of the table; rows the checks cannot read
\* raise into its except clause, which scores the table 0
AuditTable(table_name, rls_answer, policies_answer) ==
    LET rls_enabled == CheckRlsEnabled(table_name, rls_answer)
        policies    == GetTablePolicies(table_name, policies_answer)
    IN  IF policies_answer[1] = "malformed"
        THEN 0
        ELSE CalculateSecurityScore(table_name, rls_enabled, policies,
                                    CheckUserIsolation(policies),
                                    CheckServiceRoleAccess(policies))

\* what a step of the audit tool leaves alone
AuditFrame ==
    /\ UNCHANGED rateVars
    /\ UNCHANGED stackVars
    /\ UNCHANGED apiVars
    /\ UNCHANGED depVars
    /\ UNCHANGED <<clock, healthVars, dataVars>>
    /\ UNCHANGED flight
    /\ UNCHANGED webhook
    /\ UNCHANGED listing

\* main, up to the auditor: RLSSecurityAuditor raises ValueError without a
\* URL or a key (argument or environment), create_client may raise; both
\* arrive in main's except clause, which exits with 1
Construct(supabase_url, supabase_key, create_client, store) ==
    /\ audit.pc = "start"
    /\ audit' = IF ~supabase_url \/ ~supabase_key \/ create_client = "raises"
                THEN [audit EXCEPT !.pc = "exited", !.raised = "setup",
                                   !.exit_code = 1]
                ELSE [audit EXCEPT !.pc = "audit", !.store = store]
    /\ AuditFrame

\* one turn of the loop of run_comprehensive_audit
AuditNextTable(rls_answer, policies_answer) ==
    /\ audit.pc = "audit"
    /\ audit.audited < Len(expected_tables)
    /\ LET table_name == expected_tables[audit.audited + 1]
           score      == AuditTable(table_name, rls_answer, policies_answer)
       IN  /\ audit.store = "down" =>
                  rls_answer[1] = "raises" /\ policies_answer[1] = "raises"
           /\ (audit.store = "up" /\ table_name \notin Varied) =>
                  rls_answer = <<"rows", <<TRUE>> >>
                  /\ policies_answer = <<"rows", GoodPolicies>>
           /\ audit' =
                [audit EXCEPT
                   !.audited = @ + 1,
                   !.security_score = score,
                   !.rls_enabled = policies_answer[1] # "malformed"
                                   /\ CheckRlsEnabled(table_name, rls_answer),
                   !.critical_issues =
                       IF score < 70 THEN Append(@, table_name) ELSE @,
                   !.warnings =
                       IF score >= 70 /\ score < 90 THEN Append(@, table_name) ELSE @,
                   !.pc = IF audit.audited + 1 = Len(expected_tables)
                          THEN "report" ELSE "audit"]
    /\ AuditFrame

\* save_audit_report, when --json or --output asks for it: an error of open
\* or of json.dump arrives in main's except clause
SaveReport(requested, writable) ==
    /\ audit.pc = "report"
    /\ audit' = IF requested /\ ~writable
                THEN [audit EXCEPT !.pc = "exited", !.raised = "save",
                                   !.exit_code = 1]
                ELSE [audit EXCEPT !.pc = "exit"]
    /\ AuditFrame

\* the exit of main
Exit ==
    /\ audit.pc = "exit"
    /\ audit' = [audit EXCEPT
                   !.pc = "exited",
                   !.exit_code = IF audit.critical_issues # <<>> THEN 1
                                 ELSE IF audit.warnings # <<>> THEN 0
                                 ELSE 0]
    /\ AuditFrame

AuditNext ==
    \/ \E supabase_url \in BOOLEAN, supabase_key \in BOOLEAN,
          create_client \in {"ok", "raises"}, store \in {"up", "down"} :
          Construct(supabase_url, supabase_key, create_client, store)
    \/ \E rls_answer \in RlsAnswers, policies_answer \in PolicyAnswers :
          AuditNextTable(rls_answer, policies_answer)
    \/ \E requested \in BOOLEAN, writable \in BOOLEAN :
          SaveReport(requested, writable)
    \/ Exit

----------------------------------------------------------------------------
(* The payment processor's webhooks (app/stripe_client.py):
   handle_webhook_event reads the type and the object of the event and hands
   the object to the handler of the type.  An event is its type (or Missing)
   and its data, <<shape, keys>>: the event has no "data", its data has no
   "object", the object is no dict, or the object is a dict with these keys. *)

\* a key the event does not have
Missing == "<missing>"

\* the types with a handler, an unknown type, and an event without "type"
HandledTypes ==
    { "checkout.session.completed", "customer.subscription.created",
      "customer.subscription.updated", "customer.subscription.deleted",
      "invoice.payment_succeeded", "invoice.payment_failed" }

EventTypes == HandledTypes \cup { "charge.refunded", Missing }

ObjectKeys == { "customer", "subscription", "id", "status" }

EventData ==
    { <<"no_data", {}>>, <<"no_object", {}>>, <<"not_a_dict", {}>> }
        \cup { <<"dict", ks>> : ks \in SUBSET ObjectKeys }

\* what a step of this section leaves alone
WebhookFrame ==
    /\ UNCHANGED rateVars
    /\ UNCHANGED stackVars
    /\ UNCHANGED apiVars
    /\ UNCHANGED depVars
    /\ UNCHANGED <<clock, healthVars, dataVars>>
    /\ UNCHANGED <<flight, audit>>
    /\ UNCHANGED listing

\* event["type"] and event["data"]["object"]: the KeyError of a missing key
Subscript(event_type, data) ==
    IF event_type = Missing \/ data[1] \in {"no_data", "no_object"}
    THEN "KeyError" ELSE ""

\* _handle_checkout_completed .. _handle_payment_failed: each reads its
\* fields with data.get(...), which an object that is no dict does not have,
\* and logs one line
HandlerRaised(data) == IF data[1] = "dict" THEN "" ELSE "AttributeError"

HandlerLevel(event_type) ==
    IF event_type = "invoice.payment_failed" THEN "error" ELSE "info"

\* except Exception as e (the clause handle_webhook_event ends with)
WebhookCatches(raised) == raised # ""

\* the lines of handle_webhook_event from `try:` on: what is logged and
\* what is returned
WebhookBody(event_type, data) ==
    LET raised == IF event_type \in HandledTypes THEN HandlerRaised(data) ELSE ""
    IN  IF WebhookCatches(raised)
        THEN [logged |-> << <<"error", "Webhook processing failed">> >>,
              envelope |-> { <<"status", "error">>, <<"message", raised>> }]
        ELSE [logged |-> IF event_type \in HandledTypes
                         THEN << <<HandlerLevel(event_type), event_type>> >>
                         ELSE << <<"info", "Unhandled webhook event">> >>,
              envelope |-> { <<"status", "success">>, <<"event_type", event_type>> }]

\* StripeClient.handle_webhook_event
HandleWebhookEvent(event_type, data) ==
    /\ webhook' =
         IF Subscript(event_type, data) # ""
         THEN [raised |-> Subscript(event_type, data), called |-> TRUE,
               event_type |-> event_type, data |-> data,
               logged |-> <<>>, envelope |-> {}]
         ELSE [raised |-> "", called |-> TRUE,
               event_type |-> event_type, data |-> data,
               logged |-> WebhookBody(event_type, data).logged,
               envelope |-> WebhookBody(event_type, data).envelope]
    /\ WebhookFrame

WebhookNext ==
    \E event_type \in EventTypes, data \in EventData :
        HandleWebhookEvent(event_type, data)

----------------------------------------------------------------------------
(* GET /cases (app/api/cases.py, get_cases) over CaseRepository.  The rows
   of this section also carry the columns the listing reads: partner_type,
   conversation_purpose and updated_at.  A text is the sequence of its
   characters; None (no search, no partner_type) is the empty one. *)

\* the large limit get_cases counts with
CountLimit == 10000

\* weights that order the name matches before the partner matches before
\* the time of the last update (ORDER BY a DESC, b DESC, updated_at DESC)
RankBase == 10

Texts == { <<"e", "a">>, <<"T">> }

PartnerTexts == { <<"b", "o", "b">> }

PartnerTypes == { "friend", "boss" }

\* the search terms of a request: none, or a letter
Searches == { <<>>, <<"t">> }

\* the rows a case of the listing can be
ListRows(updated_at) ==
    { [user_id |-> u, name |-> n, partner_name |-> p, case_metadata |-> EmptyMetadata,
       deleted_at |-> d, partner_type |-> pt, updated_at |-> updated_at,
       conversation_purpose |-> <<"b">>] :
         u \in UserRows, n \in Texts, p \in PartnerTexts, d \in {Null, 1},
         pt \in PartnerTypes }

\* the callers: a user id is the text of a UUID, or not
Callers == {"u1", "not-a-uuid"}

\* UUID(current_user["user_id"]) raises ValueError for another text
IsUUID(user_id) == user_id \in UserRows

\* the folding of ILIKE
Lower(ch) == IF ch = "T" THEN "t" ELSE ch

\* text LIKE pattern, both folded: "%" is any run of characters, "_" any one
RECURSIVE Like(_, _)
Like(text, pattern) ==
    IF pattern = <<>>
    THEN text = <<>>
    ELSE IF Head(pattern) = "%"
         THEN \/ Like(text, Tail(pattern))
              \/ (text # <<>> /\ Like(Tail(text), pattern))
         ELSE /\ text # <<>>
              /\ (Head(pattern) = "_" \/ Lower(Head(pattern)) = Lower(Head(text)))
              /\ Like(Tail(text), Tail(pattern))

\* column.ilike(f"%{search_query}%")
ILike(text, search_query) == Like(text, <<"%">> \o search_query \o <<"%">>)

\* the ids of a set in the descending order of their rank
RECURSIVE Desc(_, _)
Desc(ids, rank) ==
    IF ids = {}
    THEN <<>>
    ELSE LET c == CHOOSE c \in ids : \A d \in ids : rank[c] >= rank[d]
         IN  <<c>> \o Desc(ids \ {c}, rank)

\* stmt.limit(limit).offset(offset)
LimitOffset(rows, limit, offset) ==
    SubSeq(rows, offset + 1, IF offset + limit < Len(rows) THEN offset + limit ELSE Len(rows))

\* CaseRepository.get_user_cases with all its arguments
GetUserCasesPage(table, user_id, limit, offset, partner_type, include_deleted) ==
    LET selected == { c \in UserCases(table, user_id, include_deleted) :
                        partner_type # "" => table[c].partner_type = partner_type }
        rank == [c \in DOMAIN table |-> table[c].updated_at]
    IN  LimitOffset(Desc(selected, rank), limit, offset)

\* (a variant of the search without the condition on Case.user_id)
SearchCasesOfAnyone(table, user_id, search_query, limit, offset) ==
    LET selected == { c \in DOMAIN table :
                        /\ table[c].deleted_at = Null
                        /\ ILike(table[c].name, search_query) }
        rank == [c \in DOMAIN table |-> table[c].updated_at]
    IN  LimitOffset(Desc(selected, rank), limit, offset)

\* CaseRepository.search_cases
SearchCases(table, user_id, search_query, limit, offset) ==
    LET selected == { c \in UserCases(table, user_id, FALSE) :
                        \/ ILike(table[c].name, search_query)
                        \/ ILike(table[c].partner_name, search_query)
                        \/ ILike(table[c].conversation_purpose, search_query) }
        rank == [c \in DOMAIN table |->
                    (IF ILike(table[c].name, search_query) THEN 2 * RankBase ELSE 0)
                  + (IF ILike(table[c].partner_name, search_query) THEN RankBase ELSE 0)
                  + table[c].updated_at]
    IN  LimitOffset(Desc(selected, rank), limit, offset)

\* CaseRepository.count_user_cases
CountUserCases(table, user_id, include_deleted) ==
    Cardinality(UserCases(table, user_id, include_deleted))

\* PaginationParams.offset
Offset(page, limit) == (page - 1) * limit

\* the try block of get_cases: the cases of the page and the total
GetCasesBody(table, user_id, page, limit, partner_type, search, include_deleted) ==
    IF search # <<>>
    THEN [returned |-> SearchCases(table, user_id, search, limit, Offset(page, limit)),
          total |-> Len(SearchCases(table, user_id, search, CountLimit, 0))]
    ELSE [returned |-> GetUserCasesPage(table, user_id, limit, Offset(page, limit),
                                        partner_type, include_deleted),
          total |-> IF partner_type # ""
                    THEN Len(GetUserCasesPage(table, user_id, CountLimit, 0,
                                              partner_type, include_deleted))
                    ELSE CountUserCases(table, user_id, include_deleted)]

\* what a step of this section leaves alone
ListingFrame ==
    /\ UNCHANGED rateVars
    /\ UNCHANGED stackVars
    /\ UNCHANGED apiVars
    /\ UNCHANGED depVars
    /\ UNCHANGED <<clock, healthVars, dataVars>>
    /\ UNCHANGED <<flight, audit, webhook>>

\* get_cases: 400 for a user id that is no UUID, 500 when the session raises
GetCases(user_id, page, limit, partner_type, search, include_deleted, session) ==
    /\ listing' =
         LET asked == [NoListing EXCEPT
                         !.user_id = user_id, !.include_deleted = include_deleted,
                         !.partner_type = partner_type, !.search = search,
                         !.page = page, !.limit = limit]
             body == GetCasesBody(cases, user_id, page, limit, partner_type, search,
                                  include_deleted)
         IN  IF ~IsUUID(user_id)
             THEN [asked EXCEPT !.status = HTTP_400_BAD_REQUEST]
             ELSE IF session = "error"
             THEN [asked EXCEPT !.status = HTTP_500_INTERNAL_SERVER_ERROR]
             ELSE [asked EXCEPT !.status = 200, !.returned = body.returned,
                                !.total = body.total]
    /\ ListingFrame

\* the requests of a caller with a UUID under every query, and the first
\* page without filters for every caller, whether the session answers or not
ListingNext ==
    \/ \E user_id \in Callers \cap UserRows, page \in 1..MaxPage, limit \in 1..MaxLimit,
          partner_type \in PartnerTypes \cup {""}, search \in Searches,
          include_deleted \in BOOLEAN :
           GetCases(user_id, page, limit, partner_type, search, include_deleted, "ok")
    \/ \E user_id \in Callers, session \in {"ok", "error"} :
           GetCases(user_id, 1, 1, "", <<>>, FALSE, session)

----------------------------------------------------------------------------
(* The specifications *)

\* the rate limiter alone, under two clients and a moving clock: the store is
\* empty, and the global limit is the configured one
InitRate ==
    /\ requests = << >>
    /\ requests_per_minute \in {SmallLimit, DefaultRequestsPerMinute}
    /\ now = 0
    /\ served = 0
    /\ last = NoRequest
    /\ hist = [c \in Clients |-> <<>>]
    /\ environment = "development"
    /\ req = NoReq
    /\ phase = "idle"
    /\ depth = 0
    /\ inbound = <<>>
    /\ outbound = <<>>
    /\ resp = NoResp
    /\ headers = {}
    /\ content = ""
    /\ logs = <<>>
    /\ idp_users = {}
    /\ profiles = {}
    /\ api = NoCall
    /\ jwt_secret = TRUE
    /\ auth = NoAuth
    /\ gate = NoGate
    /\ optional = NoOptional
    /\ clock = 0
    /\ cache = << >>
    /\ health = NoCheck
    /\ computed = << >>
    /\ checks_done = 0
    /\ sessions = [s \in SessionIds |-> NoSession]
    /\ users = {}
    /\ cases = << >>
    /\ repo = NoOp
    /\ flight = [f \in Flights |-> NoFlight]
    /\ audit = NoAudit
    /\ webhook = NoWebhook
    /\ listing = NoListing

SpecRate == InitRate /\ [][RateNext]_vars

\* requests of one client passing through the whole stack
InitStack ==
    /\ requests = << >>
    /\ requests_per_minute \in {SmallLimit, DefaultRequestsPerMinute}
    /\ now = 0
    /\ served = 0
    /\ last = NoRequest
    /\ hist = [c \in Clients |-> <<>>]
    /\ environment \in {"development", "production"}
    /\ req = NoReq
    /\ phase = "idle"
    /\ depth = 0
    /\ inbound = <<>>
    /\ outbound = <<>>
    /\ resp = NoResp
    /\ headers = {}
    /\ content = ""
    /\ logs = <<>>
    /\ idp_users = {}
    /\ profiles = {}
    /\ api = NoCall
    /\ jwt_secret = TRUE
    /\ auth = NoAuth
    /\ gate = NoGate
    /\ optional = NoOptional
    /\ clock = 0
    /\ cache = << >>
    /\ health = NoCheck
    /\ computed = << >>
    /\ checks_done = 0
    /\ sessions = [s \in SessionIds |-> NoSession]
    /\ users = {}
    /\ cases = << >>
    /\ repo = NoOp
    /\ flight = [f \in Flights |-> NoFlight]
    /\ audit = NoAudit
    /\ webhook = NoWebhook
    /\ listing = NoListing

SpecStack == InitStack /\ [][StackNext]_vars

\* calls of the authentication API, from empty stores
InitApi ==
    /\ requests = << >>
    /\ requests_per_minute = DefaultRequestsPerMinute
    /\ now = 0
    /\ served = 0
    /\ last = NoRequest
    /\ hist = [c \in Clients |-> <<>>]
    /\ environment = "development"
    /\ req = NoReq
    /\ phase = "idle"
    /\ depth = 0
    /\ inbound = <<>>
    /\ outbound = <<>>
    /\ resp = NoResp
    /\ headers = {}
    /\ content = ""
    /\ logs = <<>>
    /\ idp_users = {}
    /\ profiles = {}
    /\ api = NoCall
    /\ jwt_secret = TRUE
    /\ auth = NoAuth
    /\ gate = NoGate
    /\ optional = NoOptional
    /\ clock = 0
    /\ cache = << >>
    /\ health = NoCheck
    /\ computed = << >>
    /\ checks_done = 0
    /\ sessions = [s \in SessionIds |-> NoSession]
    /\ users = {}
    /\ cases = << >>
    /\ repo = NoOp
    /\ flight = [f \in Flights |-> NoFlight]
    /\ audit = NoAudit
    /\ webhook = NoWebhook
    /\ listing = NoListing

SpecApi == InitApi /\ [][ApiNext]_vars

\* requests through the authentication dependencies, the secret set or not
InitDep ==
    /\ requests = << >>
    /\ requests_per_minute = DefaultRequestsPerMinute
    /\ now = 0
    /\ served = 0
    /\ last = NoRequest
    /\ hist = [c \in Clients |-> <<>>]
    /\ environment = "development"
    /\ req = NoReq
    /\ phase = "idle"
    /\ depth = 0
    /\ inbound = <<>>
    /\ outbound = <<>>
    /\ resp = NoResp
    /\ headers = {}
    /\ content = ""
    /\ logs = <<>>
    /\ idp_users = {}
    /\ profiles = {}
    /\ api = NoCall
    /\ jwt_secret \in BOOLEAN
    /\ auth = NoAuth
    /\ gate = NoGate
    /\ optional = NoOptional
    /\ clock = 0
    /\ cache = << >>
    /\ health = NoCheck
    /\ computed = << >>
    /\ checks_done = 0
    /\ sessions = [s \in SessionIds |-> NoSession]
    /\ users = {}
    /\ cases = << >>
    /\ repo = NoOp
    /\ flight = [f \in Flights |-> NoFlight]
    /\ audit = NoAudit
    /\ webhook = NoWebhook
    /\ listing = NoListing

SpecDep == InitDep /\ [][DepNext]_vars

\* checks of one health checker, from an empty cache
InitHealth ==
    /\ requests = << >>
    /\ requests_per_minute = DefaultRequestsPerMinute
    /\ now = 0
    /\ served = 0
    /\ last = NoRequest
    /\ hist = [c \in Clients |-> <<>>]
    /\ environment = "development"
    /\ req = NoReq
    /\ phase = "idle"
    /\ depth = 0
    /\ inbound = <<>>
    /\ outbound = <<>>
    /\ resp = NoResp
    /\ headers = {}
    /\ content = ""
    /\ logs = <<>>
    /\ idp_users = {}
    /\ profiles = {}
    /\ api = NoCall
    /\ jwt_secret = TRUE
    /\ auth = NoAuth
    /\ gate = NoGate
    /\ optional = NoOptional
    /\ clock = 0
    /\ cache = << >>
    /\ health = NoCheck
    /\ computed = << >>
    /\ checks_done = 0
    /\ sessions = [s \in SessionIds |-> NoSession]
    /\ users = {}
    /\ cases = << >>
    /\ repo = NoOp
    /\ flight = [f \in Flights |-> NoFlight]
    /\ audit = NoAudit
    /\ webhook = NoWebhook
    /\ listing = NoListing

SpecHealth == InitHealth /\ [][HealthNext]_vars

\* the two health endpoints, requested one after the other
InitHealthApi ==
    /\ requests = << >>
    /\ requests_per_minute = DefaultRequestsPerMinute
    /\ now = 0
    /\ served = 0
    /\ last = NoRequest
    /\ hist = [c \in Clients |-> <<>>]
    /\ environment = "development"
    /\ req = NoReq
    /\ phase = "idle"
    /\ depth = 0
    /\ inbound = <<>>
    /\ outbound = <<>>
    /\ resp = NoResp
    /\ headers = {}
    /\ content = ""
    /\ logs = <<>>
    /\ idp_users = {}
    /\ profiles = {}
    /\ api = NoCall
    /\ jwt_secret = TRUE
    /\ auth = NoAuth
    /\ gate = NoGate
    /\ optional = NoOptional
    /\ clock = 0
    /\ cache = << >>
    /\ health = NoCheck
    /\ computed = << >>
    /\ checks_done = 0
    /\ sessions = [s \in SessionIds |-> NoSession]
    /\ users = {}
    /\ cases = << >>
    /\ repo = NoOp
    /\ flight = [f \in Flights |-> NoFlight]
    /\ audit = NoAudit
    /\ webhook = NoWebhook
    /\ listing = NoListing

SpecHealthApi == InitHealthApi /\ [][HealthApiNext]_vars

\* sessions handed out by the provider, none handed out yet
InitSession ==
    /\ requests = << >>
    /\ requests_per_minute = DefaultRequestsPerMinute
    /\ now = 0
    /\ served = 0
    /\ last = NoRequest
    /\ hist = [c \in Clients |-> <<>>]
    /\ environment = "development"
    /\ req = NoReq
    /\ phase = "idle"
    /\ depth = 0
    /\ inbound = <<>>
    /\ outbound = <<>>
    /\ resp = NoResp
    /\ headers = {}
    /\ content = ""
    /\ logs = <<>>
    /\ idp_users = {}
    /\ profiles = {}
    /\ api = NoCall
    /\ jwt_secret = TRUE
    /\ auth = NoAuth
    /\ gate = NoGate
    /\ optional = NoOptional
    /\ clock = 0
    /\ cache = << >>
    /\ health = NoCheck
    /\ computed = << >>
    /\ checks_done = 0
    /\ sessions = [s \in SessionIds |-> NoSession]
    /\ users = {}
    /\ cases = << >>
    /\ repo = NoOp
    /\ flight = [f \in Flights |-> NoFlight]
    /\ audit = NoAudit
    /\ webhook = NoWebhook
    /\ listing = NoListing

SpecSession == InitSession /\ [][SessionNext]_vars

\* repository calls on empty tables
InitCases ==
    /\ requests = << >>
    /\ requests_per_minute = DefaultRequestsPerMinute
    /\ now = 0
    /\ served = 0
    /\ last = NoRequest
    /\ hist = [c \in Clients |-> <<>>]
    /\ environment = "development"
    /\ req = NoReq
    /\ phase = "idle"
    /\ depth = 0
    /\ inbound = <<>>
    /\ outbound = <<>>
    /\ resp = NoResp
    /\ headers = {}
    /\ content = ""
    /\ logs = <<>>
    /\ idp_users = {}
    /\ profiles = {}
    /\ api = NoCall
    /\ jwt_secret = TRUE
    /\ auth = NoAuth
    /\ gate = NoGate
    /\ optional = NoOptional
    /\ clock = 0
    /\ cache = << >>
    /\ health = NoCheck
    /\ computed = << >>
    /\ checks_done = 0
    /\ sessions = [s \in SessionIds |-> NoSession]
    /\ users = {}
    /\ cases = << >>
    /\ repo = NoOp
    /\ flight = [f \in Flights |-> NoFlight]
    /\ audit = NoAudit
    /\ webhook = NoWebhook
    /\ listing = NoListing

SpecCases == InitCases /\ [][CasesNext]_vars

\* repository calls that write metadata, on empty tables
InitMetadata ==
    /\ requests = << >>
    /\ requests_per_minute = DefaultRequestsPerMinute
    /\ now = 0
    /\ served = 0
    /\ last = NoRequest
    /\ hist = [c \in Clients |-> <<>>]
    /\ environment = "development"
    /\ req = NoReq
    /\ phase = "idle"
    /\ depth = 0
    /\ inbound = <<>>
    /\ outbound = <<>>
    /\ resp = NoResp
    /\ headers = {}
    /\ content = ""
    /\ logs = <<>>
    /\ idp_users = {}
    /\ profiles = {}
    /\ api = NoCall
    /\ jwt_secret = TRUE
    /\ auth = NoAuth
    /\ gate = NoGate
    /\ optional = NoOptional
    /\ clock = 0
    /\ cache = << >>
    /\ health = NoCheck
    /\ computed = << >>
    /\ checks_done = 0
    /\ sessions = [s \in SessionIds |-> NoSession]
    /\ users = {}
    /\ cases = << >>
    /\ repo = NoOp
    /\ flight = [f \in Flights |-> NoFlight]
    /\ audit = NoAudit
    /\ webhook = NoWebhook
    /\ listing = NoListing

SpecMetadata == InitMetadata /\ [][MetadataNext]_vars

\* requests of two clients served at once by one rate limiter
InitConc ==
    /\ requests = << >>
    /\ requests_per_minute \in {1, SmallLimit}
    /\ now = 0
    /\ served = 0
    /\ last = NoRequest
    /\ hist = [c \in Clients |-> <<>>]
    /\ environment = "development"
    /\ req = NoReq
    /\ phase = "idle"
    /\ depth = 0
    /\ inbound = <<>>
    /\ outbound = <<>>
    /\ resp = NoResp
    /\ headers = {}
    /\ content = ""
    /\ logs = <<>>
    /\ idp_users = {}
    /\ profiles = {}
    /\ api = NoCall
    /\ jwt_secret = TRUE
    /\ auth = NoAuth
    /\ gate = NoGate
    /\ optional = NoOptional
    /\ clock = 0
    /\ cache = << >>
    /\ health = NoCheck
    /\ computed = << >>
    /\ checks_done = 0
    /\ sessions = [s \in SessionIds |-> NoSession]
    /\ users = {}
    /\ cases = << >>
    /\ repo = NoOp
    /\ flight = [f \in Flights |-> NoFlight]
    /\ audit = NoAudit
    /\ webhook = NoWebhook
    /\ listing = NoListing

SpecConc == InitConc /\ [][ConcNext]_vars

\* requests through the stack, their responses and their log lines
InitPipeline ==
    /\ requests = << >>
    /\ requests_per_minute \in {1, DefaultRequestsPerMinute}
    /\ now = 0
    /\ served = 0
    /\ last = NoRequest
    /\ hist = [c \in Clients |-> <<>>]
    /\ environment \in {"development", "production"}
    /\ req = NoReq
    /\ phase = "idle"
    /\ depth = 0
    /\ inbound = <<>>
    /\ outbound = <<>>
    /\ resp = NoResp
    /\ headers = {}
    /\ content = ""
    /\ logs = <<>>
    /\ idp_users = {}
    /\ profiles = {}
    /\ api = NoCall
    /\ jwt_secret = TRUE
    /\ auth = NoAuth
    /\ gate = NoGate
    /\ optional = NoOptional
    /\ clock = 0
    /\ cache = << >>
    /\ health = NoCheck
    /\ computed = << >>
    /\ checks_done = 0
    /\ sessions = [s \in SessionIds |-> NoSession]
    /\ users = {}
    /\ cases = << >>
    /\ repo = NoOp
    /\ flight = [f \in Flights |-> NoFlight]
    /\ audit = NoAudit
    /\ webhook = NoWebhook
    /\ listing = NoListing

SpecPipeline == InitPipeline /\ [][PipelineNext]_vars

\* requests to endpoints for which a signed-in user is optional
InitOptional ==
    /\ requests = << >>
    /\ requests_per_minute = DefaultRequestsPerMinute
    /\ now = 0
    /\ served = 0
    /\ last = NoRequest
    /\ hist = [c \in Clients |-> <<>>]
    /\ environment = "development"
    /\ req = NoReq
    /\ phase = "idle"
    /\ depth = 0
    /\ inbound = <<>>
    /\ outbound = <<>>
    /\ resp = NoResp
    /\ headers = {}
    /\ content = ""
    /\ logs = <<>>
    /\ idp_users = {}
    /\ profiles = {}
    /\ api = NoCall
    /\ jwt_secret \in BOOLEAN
    /\ auth = NoAuth
    /\ gate = NoGate
    /\ optional = NoOptional
    /\ clock = 0
    /\ cache = << >>
    /\ health = NoCheck
    /\ computed = << >>
    /\ checks_done = 0
    /\ sessions = [s \in SessionIds |-> NoSession]
    /\ users = {}
    /\ cases = << >>
    /\ repo = NoOp
    /\ flight = [f \in Flights |-> NoFlight]
    /\ audit = NoAudit
    /\ webhook = NoWebhook
    /\ listing = NoListing

SpecOptional == InitOptional /\ [][OptionalNext]_vars

\* one run of the audit tool
InitAudit ==
    /\ requests = << >>
    /\ requests_per_minute = DefaultRequestsPerMinute
    /\ now = 0
    /\ served = 0
    /\ last = NoRequest
    /\ hist = [c \in Clients |-> <<>>]
    /\ environment = "development"
    /\ req = NoReq
    /\ phase = "idle"
    /\ depth = 0
    /\ inbound = <<>>
    /\ outbound = <<>>
    /\ resp = NoResp
    /\ headers = {}
    /\ content = ""
    /\ logs = <<>>
    /\ idp_users = {}
    /\ profiles = {}
    /\ api = NoCall
    /\ jwt_secret = TRUE
    /\ auth = NoAuth
    /\ gate = NoGate
    /\ optional = NoOptional
    /\ clock = 0
    /\ cache = << >>
    /\ health = NoCheck
    /\ computed = << >>
    /\ checks_done = 0
    /\ sessions = [s \in SessionIds |-> NoSession]
    /\ users = {}
    /\ cases = << >>
    /\ repo = NoOp
    /\ flight = [f \in Flights |-> NoFlight]
    /\ audit = NoAudit
    /\ webhook = NoWebhook
    /\ listing = NoListing

SpecAudit == InitAudit /\ [][AuditNext]_vars

\* webhook events handled one after the other
InitWebhook ==
    /\ requests = << >>
    /\ requests_per_minute = DefaultRequestsPerMinute
    /\ now = 0
    /\ served = 0
    /\ last = NoRequest
    /\ hist = [c \in Clients |-> <<>>]
    /\ environment = "development"
    /\ req = NoReq
    /\ phase = "idle"
    /\ depth = 0
    /\ inbound = <<>>
    /\ outbound = <<>>
    /\ resp = NoResp
    /\ headers = {}
    /\ content = ""
    /\ logs = <<>>
    /\ idp_users = {}
    /\ profiles = {}
    /\ api = NoCall
    /\ jwt_secret = TRUE
    /\ auth = NoAuth
    /\ gate = NoGate
    /\ optional = NoOptional
    /\ clock = 0
    /\ cache = << >>
    /\ health = NoCheck
    /\ computed = << >>
    /\ checks_done = 0
    /\ sessions = [s \in SessionIds |-> NoSession]
    /\ users = {}
    /\ cases = << >>
    /\ repo = NoOp
    /\ flight = [f \in Flights |-> NoFlight]
    /\ audit = NoAudit
    /\ webhook = NoWebhook
    /\ listing = NoListing

SpecWebhook == InitWebhook /\ [][WebhookNext]_vars

\* listings of a table of two cases
InitListing ==
    /\ requests = << >>
    /\ requests_per_minute = DefaultRequestsPerMinute
    /\ now = 0
    /\ served = 0
    /\ last = NoRequest
    /\ hist = [c \in Clients |-> <<>>]
    /\ environment = "development"
    /\ req = NoReq
    /\ phase = "idle"
    /\ depth = 0
    /\ inbound = <<>>
    /\ outbound = <<>>
    /\ resp = NoResp
    /\ headers = {}
    /\ content = ""
    /\ logs = <<>>
    /\ idp_users = {}
    /\ profiles = {}
    /\ api = NoCall
    /\ jwt_secret = TRUE
    /\ auth = NoAuth
    /\ gate = NoGate
    /\ optional = NoOptional
    /\ clock = 0
    /\ cache = << >>
    /\ health = NoCheck
    /\ computed = << >>
    /\ checks_done = 0
    /\ sessions = [s \in SessionIds |-> NoSession]
    /\ users = UserRows
    /\ cases \in [CaseIds -> ListRows(1) \cup ListRows(2)]
    /\ cases["c1"].updated_at < cases["c2"].updated_at
    /\ repo = NoOp
    /\ flight = [f \in Flights |-> NoFlight]
    /\ audit = NoAudit
    /\ webhook = NoWebhook
    /\ listing = NoListing

SpecListing == InitListing /\ [][ListingNext]_vars

----------------------------------------------------------------------------
(* Properties of the rate limiter *)

\* the requests of a history that were passed on to the later stages
Admitted(h) == SelectSeq(h, LAMBDA r : r.verdict = "next")

\* the requests of a history whose timestamp dispatch recorded
Recorded(h) == SelectSeq(h, LAMBDA r : r.verdict # "global")

\* the earlier requests of the client of the last request, within 60 seconds of it
Earlier == SubSeq(hist[last.client], 1, Len(hist[last.client]) - 1)

\* a request was just dispatched: the clock has not moved since, and the
\* history of its client ends with it
LastInHistory ==
    /\ last.client \in Clients
    /\ last.time = now
    /\ Len(hist[last.client]) > 0

\* the live window of a client in the store
LiveWindow(c) == IF c \in DOMAIN requests THEN Prune(requests[c], now) ELSE <<>>

\* C1: once N requests of a client were admitted within 60 seconds (N the
\* configured global limit), the client's next request inside that window is
\* answered 429 with Retry-After: 60 and is not passed on.
C1_GlobalLimitRejects ==
    (LastInHistory /\ Len(Admitted(Earlier)) >= requests_per_minute)
        => /\ last.status = HTTP_429_TOO_MANY_REQUESTS
           /\ last.retry_after = 60
           /\ ~last.passed

C1_Witness ==
    /\ LastInHistory
    /\ Len(Admitted(Earlier)) = requests_per_minute
    /\ last.status = HTTP_429_TOO_MANY_REQUESTS
    /\ last.error = "Rate limit exceeded"

\* C2: the rate-limit state is per client: the live window the store holds for
\* a client is exactly the recorded requests of that client's own history,
\* whatever the other clients sent, and the answer to a request is the one
\* computed from its client's own earlier requests alone.
C2_PerClient ==
    /\ \A c \in Clients :
          LiveWindow(c) = [i \in 1..Len(Recorded(hist[c])) |-> Recorded(hist[c])[i].time]
    /\ LastInHistory =>
          hist[last.client][Len(hist[last.client])].verdict =
              Verdict([i \in 1..Len(Recorded(Earlier)) |-> Recorded(Earlier)[i].time],
                      last.path, last.time, requests_per_minute)

C2_Witness ==
    /\ \E a, b \in Clients :
          /\ a # b
          /\ last.client = b /\ last.passed /\ last.time = now
          /\ Len(hist[a]) > 0
          /\ hist[a][Len(hist[a])].verdict = "global"
          /\ hist[a][Len(hist[a])].time = now

\* the requests of a history to a path under the same table entry as path
SamePrefix(h, path) ==
    SelectSeq(h, LAMBDA r : MatchedPattern(r.path) = MatchedPattern(path))

\* C3: for a client whose window is empty, the first L consecutive requests to
\* a path under a prefix with per-path limit L (10 for /api/auth/, 3 for
\* /api/upload/, 5 for /api/generate/) within 60 seconds are all admitted and
\* the next one is answered 429. Stated for the first minute of a run under
\* the default global limit, where a client's history starts from an empty
\* window.
C3_PerPathAdmitsLimit ==
    \A c \in Clients :
        (/\ requests_per_minute = DefaultRequestsPerMinute
         /\ now < WindowSeconds
         /\ Len(hist[c]) > 0
         /\ MatchedPattern(hist[c][1].path) # 0
         /\ SamePrefix(hist[c], hist[c][1].path) = hist[c])
        => \A i \in 1..Len(hist[c]) :
              /\ i <= GetEndpointRateLimit(hist[c][1].path) => hist[c][i].verdict = "next"
              /\ i = GetEndpointRateLimit(hist[c][1].path) + 1 => hist[c][i].verdict # "next"

\* C4: a request is rejected on the per-path limit only if its client made
\* that many requests to the same path prefix in the last 60 seconds (the
\* request itself counted in); requests to other paths never count.
C4_PerPathIndependent ==
    (LastInHistory /\ last.error = "Endpoint rate limit exceeded")
        => Len(SamePrefix(hist[last.client], last.path)) >= GetEndpointRateLimit(last.path)

----------------------------------------------------------------------------
(* Properties of the middleware stack *)

\* the nesting the comments of app/main.py announce, outermost first
AnnouncedOrder ==
    <<"logging", "security", "gzip", "trustedhost", "validation", "ratelimit",
      "auth", "cors">>

Reverse(seq) == [i \in 1..Len(seq) |-> seq[Len(seq) + 1 - i]]

\* the request in flight went through every stage to the endpoint and back
RoundTrip ==
    /\ phase = "done"
    /\ resp.by = "endpoint"

\* C5: for every request the stages run inbound in the order logging,
\* security-headers, compression, trusted-host, validation, rate-limit,
\* auth-context, CORS and handle the response in the reverse order (among the
\* stages that are registered: trusted-host is in production only).
C5_AnnouncedNesting ==
    RoundTrip =>
        LET stages == SelectSeq(AnnouncedOrder,
                                LAMBDA st : \E i \in 1..Len(inbound) : inbound[i] = st)
        IN /\ inbound = Append(stages, "endpoint")
           /\ outbound = Reverse(stages)

----------------------------------------------------------------------------
(* Properties of the authentication API *)

\* the last call was a registration whose account was created and whose
\* profile insert then failed
ProfileInsertFailed ==
    /\ api.op = "register"
    /\ api.sign_up = "created"
    /\ api.insert # "ok"

\* C6: in a registration where the identity-provider account is created and
\* the local profile insert then fails, the compensating delete_user call is
\* made exactly once, whether or not that call itself succeeds.
C6_RollbackOnce == ProfileInsertFailed => api.delete_calls = 1

C6_Witness ==
    /\ ProfileInsertFailed
    /\ api.rollback = "auth_error"
    /\ api.delete_calls = 1
    /\ api.email \in idp_users

\* C7: when the local profile insert fails during registration the answer is
\* always 500 with the "profile creation error" message; a failure of the
\* rollback never changes the status or the message.
C7_ProfileErrorAnswer ==
    ProfileInsertFailed =>
        /\ api.status = 500
        /\ api.detail = "User registration failed: profile creation error"
        /\ api.visible = "User registration failed: profile creation error"

C7_Witness ==
    /\ ProfileInsertFailed
    /\ api.rollback = "error"
    /\ api.status = 500
    /\ api.visible = "User registration failed: profile creation error"

\* C10: the status and the message of the answer to POST /auth/reset-password
\* are 200 and the one generic message for every address, whether or not the
\* account exists and whether the identity-provider call returned or raised.
C10_ResetUniform ==
    api.op = "reset" =>
        /\ api.status = 200
        /\ api.visible = GenericResetMessage

C10_Witness ==
    /\ api.op = "reset"
    /\ api.email \notin idp_users
    /\ api.rollback = "auth_error"
    /\ \E e \in idp_users : e # api.email
    /\ api.status = 200

----------------------------------------------------------------------------
(* Properties of the authentication dependencies *)

\* the token resolved last is one that has to be refused: exp missing or
\* passed, aud not "authenticated", or sub missing
MustBeRefused(token) ==
    \/ token.exp \in {"absent", "past"}
    \/ token.aud = "other"
    \/ token.sub = "absent"

\* C8: with the secret configured, the current-user resolver answers 401 to
\* every bearer token that is missing exp, is already expired, has an aud
\* other than "authenticated", or is missing the sub claim.
C8_RefusedWith401 ==
    (jwt_secret /\ auth.credentials /\ MustBeRefused(auth.token)) =>
        auth.status = 401

\* a token that lacks nothing but the issued-at claim
OnlyIatMissing(token) ==
    /\ token.signature = "valid"
    /\ token.iat = "absent"
    /\ token.exp = "future"
    /\ token.aud = "authenticated"
    /\ token.sub \in UserIds

\* C28: the current-user resolver requires the iat claim: a token with valid
\* signature, audience, subject and expiry but no iat is answered 401.
C28_IatRequired ==
    (jwt_secret /\ auth.credentials /\ OnlyIatMissing(auth.token)) =>
        auth.status = 401

\* the optional resolver ran
OptionalRan == optional.returned # "" \/ optional.raised # ""

\* the decode of the optional resolver's token cannot succeed: no header, a
\* bad signature, no or a passed expiry, no or a foreign audience, no
\* subject, or no server secret
DecodeMustFail ==
    \/ ~optional.credentials
    \/ ~jwt_secret
    \/ optional.token.signature # "valid"
    \/ optional.token.exp # "future"
    \/ optional.token.aud # "authenticated"
    \/ optional.token.sub \notin UserIds

\* C29: the optional-auth variant never raises: for every failure of the
\* decode it returns an absent context instead of an error.
C29_OptionalNeverRaises ==
    OptionalRan =>
        /\ optional.raised = ""
        /\ DecodeMustFail => optional.returned = "None" /\ optional.user_id = ""

C29_Witness ==
    /\ OptionalRan
    /\ optional.credentials
    /\ jwt_secret
    /\ optional.token.signature = "valid"
    /\ optional.token.exp = "future"
    /\ optional.token.aud = "authenticated"
    /\ optional.token.sub = "absent"
    /\ optional.returned = "None"

\* the gate ran for an authenticated user and a request that carries what
\* the gate reads
GateDecided == gate.user_id_field # "" /\ gate.user_id # ""

\* C9: a resource-owner gate built for path-parameter name P lets a request
\* through if and only if the authenticated user_id equals the value of path
\* parameter P of the request, and otherwise fails with 403 "Access denied:
\* can only access your own resources".
C9_OwnerGate ==
    GateDecided =>
        /\ gate.passed <=> gate.user_id = gate.path_value
        /\ ~gate.passed =>
              /\ gate.status = 403
              /\ gate.detail = "Access denied: can only access your own resources"

----------------------------------------------------------------------------
(* Properties of the health checker *)

\* the check run last ran its probes
Fresh(kind) == health.kind = kind /\ health.probes_run > 0

WorstOf(a, b) ==
    IF "unhealthy" \in {a, b} THEN "unhealthy"
    ELSE IF "degraded" \in {a, b} THEN "degraded"
    ELSE "healthy"

\* C12: the readiness check's overall status is unhealthy if the identity or
\* the database probe is unhealthy (or what it called raised), otherwise
\* degraded if either is degraded, otherwise healthy, in whichever order the
\* two results are processed.
C12_ReadinessWorst ==
    Fresh("readiness") =>
        LET first == health.result.checks[1]
            second == health.result.checks[2]
        IN /\ health.result.status = WorstOf(first.status, second.status)
           /\ ReadinessStatus(HEALTHY, <<second, first>>) = health.result.status

C12_Witness ==
    /\ Fresh("readiness")
    /\ health.result.checks[1].error = "raises"
    /\ health.result.checks[2].status = "degraded"
    /\ health.result.status = "unhealthy"

\* C13: after a check of one kind has computed a result at time t, every
\* check of that kind started less than 30 seconds after t returns that
\* result and runs no probe.
C13_CachedWithin30 ==
    (health.kind # "" /\ health.prior.known /\ health.started - health.prior.at < 30) =>
        /\ health.result = health.prior.result
        /\ health.probes_run = 0

C13_Witness ==
    /\ health.kind = "comprehensive"
    /\ health.prior.known
    /\ health.started > health.prior.at
    /\ health.started - health.prior.at < 30
    /\ health.probes_run = 0
    /\ health.result.timestamp = health.prior.at

----------------------------------------------------------------------------
(* Properties of the scoped-session provider *)

SessionCalled(s, call) == \E i \in 1..Len(sessions[s].calls) : sessions[s].calls[i] = call

\* C14: every session handed out is committed if the caller's unit of work
\* finishes without raising (and the commit goes through), is rolled back
\* and not committed if it raises, and is closed on exit either way.
C14_CommitOrRollbackThenClose ==
    \A s \in SessionIds :
        sessions[s].state = "exited" =>
            /\ sessions[s].closed
            /\ sessions[s].tx # "open"
            /\ sessions[s].finish = "returns" =>
                  /\ sessions[s].calls[1] = "commit"
                  /\ sessions[s].tx = "committed" \/ SessionCalled(s, "rollback")
            /\ sessions[s].finish # "returns" =>
                  /\ ~SessionCalled(s, "commit")
                  /\ sessions[s].tx = "rolled_back"

C14_Witness ==
    /\ sessions["s1"].state = "exited"
    /\ sessions["s1"].finish = "returns"
    /\ sessions["s1"].writes > 0
    /\ sessions["s1"].tx = "committed"
    /\ sessions["s2"].state = "exited"
    /\ sessions["s2"].finish = "Exception"
    /\ sessions["s2"].writes > 0
    /\ sessions["s2"].tx = "rolled_back"
    /\ sessions["s2"].closed

----------------------------------------------------------------------------
(* Properties of the repositories *)

\* the call made last was op, on a case that was found
LastOn(op) == repo.op = op /\ repo.ok /\ repo.case_id \in DOMAIN cases

\* C15: soft_delete and restore are idempotent: a soft_delete of a case that
\* is already soft-deleted leaves its deleted_at (and the row) unchanged, a
\* restore of an active case leaves deleted_at null, and applying either
\* twice gives the row that applying it once gives.
C15_Idempotent ==
    /\ (LastOn("soft_delete") /\ IsDeleted(repo.row_before)) =>
          cases[repo.case_id] = repo.row_before
    /\ (LastOn("restore") /\ ~IsDeleted(repo.row_before)) =>
          cases[repo.case_id] = repo.row_before
    /\ \A c \in DOMAIN cases : \A t \in 0..MaxClock :
          /\ SoftDeleteCase(SoftDeleteCase(cases[c], clock), t)
                = SoftDeleteCase(cases[c], clock)
          /\ RestoreCase(RestoreCase(cases[c])) = RestoreCase(cases[c])

C15_Witness ==
    /\ LastOn("soft_delete")
    /\ IsDeleted(repo.row_before)
    /\ repo.at > repo.row_before.deleted_at
    /\ cases[repo.case_id].deleted_at = repo.row_before.deleted_at

C17_MetadataMerged ==
    LastOn("update_metadata") =>
        LET old == repo.row_before.case_metadata
            new == cases[repo.case_id].case_metadata
        IN /\ \A k \in DOMAIN old \ DOMAIN repo.metadata :
                 k \in DOMAIN new /\ new[k] = old[k]
           /\ \A k \in DOMAIN repo.metadata :
                 k \in DOMAIN new /\ new[k] = repo.metadata[k]

C17_Witness ==
    /\ LastOn("update_metadata")
    /\ DOMAIN repo.row_before.case_metadata = {"a", "b"}
    /\ DOMAIN repo.metadata = {"a"}
    /\ repo.metadata["a"] # repo.row_before.case_metadata["a"]
    /\ cases[repo.case_id].case_metadata["b"] = repo.row_before.case_metadata["b"]

C20_NamesNeverEmpty ==
    \A c \in DOMAIN cases :
        /\ cases[c].name # ""
        /\ cases[c].partner_name # ""

\* C27: POST /auth/confirm answers 400 whenever the provider's verification
\* response has no user or no session.
C27_MissingUserOrSession400 ==
    (api.op = "confirm" /\ api.sign_up \in {"no_user", "no_session"})
        => api.status = 400

----------------------------------------------------------------------------
(* Properties of the rate limiter under concurrent requests *)

\* the slots whose request was admitted and is suspended in call_next
Suspended(c) == { f \in Flights : flight[f].pc = "call_next" /\ flight[f].client = c }

\* C21: whatever the interleaving of the requests in flight, no client has
\* more than N requests admitted within 60 seconds (N the configured limit).
C21_NeverOverAdmitted ==
    \A c \in Clients : Len(Admitted(hist[c])) <= requests_per_minute

C21_Witness ==
    \E c \in Clients :
        /\ requests_per_minute = SmallLimit
        /\ Len(Admitted(hist[c])) = requests_per_minute
        /\ Cardinality(Suspended(c)) = requests_per_minute
        /\ LastInHistory
        /\ last.client = c
        /\ last.status = HTTP_429_TOO_MANY_REQUESTS

----------------------------------------------------------------------------
(* Properties of the responses and of the log lines *)

\* the response to the request in flight has left the stack
Answered == phase = "done"

\* the lines of the request's log that carry the whole record (log_data)
RecordLines ==
    SelectSeq(logs, LAMBDA l : l[2] \in {"Server error", "Client error",
                                          "Sensitive operation", "Request processed"})

\* C22: every request to a path the logging stage does not skip that the rate
\* limiter answers 429 gets the warning line "Rate limit exceeded" of the
\* logging stage.
C22_RateLimitLogged ==
    (Answered /\ resp.by = "ratelimit" /\ resp.status = 429
        /\ ~LoggingExcluded(req.path))
        => \E i \in 1..Len(logs) :
              logs[i][1] = "warning" /\ logs[i][2] = "Rate limit exceeded"

\* C23: no response that leaves the stack carries an X-Powered-By or a Server
\* header, whichever stage made it.
C23_NoServerIdentification ==
    Answered => ~HasHeader(headers, "X-Powered-By") /\ ~HasHeader(headers, "Server")

\* C24: the record line of a request is logged at error severity when the
\* status it records is 5xx and at warning severity when it is 4xx, also when
\* the later stages raised and 500 is recorded.
C24_SeverityFollowsStatus ==
    \A i \in 1..Len(RecordLines) :
        /\ RecordLines[i][3] >= 500 => RecordLines[i][1] = "error"
        /\ (RecordLines[i][3] >= 400 /\ RecordLines[i][3] < 500)
              => RecordLines[i][1] = "warning"

\* the paths under an auth or user prefix: /api/auth/, /api/users/ and the
\* root-level /auth/verify and /auth/profile
AuthOrUserPath(path) ==
    \/ StartsWith(path, <<"api", "auth">>)
    \/ StartsWith(path, <<"api", "users">>)
    \/ path \in { <<"auth", "verify">>, <<"auth", "profile">> }

\* C25: every response to a request under an auth or user prefix, error
\* responses included, leaves the stack with Cache-Control naming no-store and
\* no-cache, Pragma: no-cache and Expires: 0.
C25_SensitiveNotCached ==
    (Answered /\ AuthOrUserPath(req.path))
        => /\ GetHeader(headers, "Cache-Control")
                = "no-store, no-cache, must-revalidate, private"
           /\ GetHeader(headers, "Pragma") = "no-cache"
           /\ GetHeader(headers, "Expires") = "0"

\* the origin is neither in the allow-list nor, in development, a localhost one
OutsideAllowList(origin, env) ==
    /\ origin \notin allowed_origins
    /\ ~(env = "development" /\ LocalHostname(origin))

\* C26: an OPTIONS request whose Origin is in the allow-list is answered 200
\* with Access-Control-Allow-Origin echoing it and Access-Control-Max-Age
\* 86400; one whose Origin is outside the allow-list (and no localhost origin
\* in development) is answered 403 "CORS preflight rejected".
C26_Preflight ==
    (Answered /\ req.method = "OPTIONS" /\ req.origin # "")
        => /\ req.origin \in allowed_origins
                => /\ resp.status = 200
                   /\ GetHeader(headers, "Access-Control-Allow-Origin") = req.origin
                   /\ GetHeader(headers, "Access-Control-Max-Age") = "86400"
           /\ OutsideAllowList(req.origin, environment)
                => /\ resp.status = 403
                   /\ content = "CORS preflight rejected"

C26_Witness ==
    /\ Answered
    /\ req.method = "OPTIONS"
    /\ req.origin \in allowed_origins
    /\ req.shape.query_bad
    /\ req.path = <<"api", "auth", "login">>
    /\ last.status = HTTP_429_TOO_MANY_REQUESTS
    /\ resp = [status |-> 200, by |-> "cors"]
    /\ GetHeader(headers, "Access-Control-Max-Age") = "86400"

----------------------------------------------------------------------------
(* Properties of the audit tool *)

\* C30: the audit tool exits with 1 exactly when a table was reported
\* critical or the tool failed to set up or to reach the store, and with 0
\* in every other case
C30_ExitCode ==
    audit.pc = "exited" =>
        (audit.exit_code = 1 <=>
            \/ audit.critical_issues # <<>>
            \/ audit.raised = "setup"
            \/ audit.store = "down")

----------------------------------------------------------------------------
(* Properties of the webhook handler *)

\* C31: handle_webhook_event never raises: for every event it returns a
\* {status, event_type} envelope or a {status: error, message} envelope
C31_NeverRaises ==
    webhook.called =>
        /\ webhook.raised = ""
        /\ { p[1] : p \in webhook.envelope } \in
              { {"status", "event_type"}, {"status", "message"} }

----------------------------------------------------------------------------
(* Properties of the rate limiter: rejected requests and recovery *)

\* C32: a request answered 429, by the global or by the per-path check, is
\* not recorded: the stored window of its client holds the timestamps of the
\* admitted requests of the last 60 seconds and nothing else
C32_RejectedNotRecorded ==
    (LastInHistory /\ last.status = HTTP_429_TOO_MANY_REQUESTS) =>
        Len(requests[last.client]) = Len(Admitted(hist[last.client]))

\* C33: a client whose latest admitted request is 60 seconds old or older is
\* admitted with its next request, whatever it sent and had rejected since
C33_AdmittedAgain ==
    (LastInHistory /\ Admitted(Earlier) = <<>>) => last.passed

----------------------------------------------------------------------------
(* Properties of the stack: validation and the rate limiter *)

\* C34: a request the validation stage answers (400, 413, 415, 431) never
\* entered the rate limiter, which therefore recorded no timestamp for it
C34_RejectedBeforeRateLimit ==
    (Answered /\ resp.by = "validation") =>
        /\ \A i \in 1..Len(inbound) : inbound[i] # "ratelimit"
        /\ ~(last.client = req.client /\ last.path = req.path /\ last.passed)

----------------------------------------------------------------------------
(* Properties of the registration: every error outcome *)

\* C36: a registration that created the identity-provider account and ends
\* with another status than 201 attempted the compensating deletion
C36_DeletionAttempted ==
    (api.op = "register" /\ api.sign_up = "created" /\ api.status # HTTP_201_CREATED) =>
        api.delete_calls >= 1

----------------------------------------------------------------------------
(* Properties of the health endpoints *)

\* C35: of two GET /health/ready (or two GET /health/detailed) handled less
\* than 30 seconds apart, the later is served from the cache: it runs no probe
\* and returns the result computed for the earlier one
C35_CachedAcrossRequests ==
    (resp.by = "endpoint" /\ health.kind \in {"readiness", "comprehensive"}
        /\ health.prior.known
        /\ health.started - health.prior.at < CacheDurationSeconds) =>
        /\ health.probes_run = 0
        /\ health.result = health.prior.result

\* C39: a table the audit finds with row-level security disabled is reported
\* as a critical issue, with a score below 70, whatever its policies are
C39_DisabledIsCritical ==
    (audit.audited > 0 /\ audit.raised = "" /\ ~audit.rls_enabled) =>
        /\ audit.security_score < 70
        /\ audit.critical_issues # <<>>
        /\ audit.critical_issues[Len(audit.critical_issues)]
              = expected_tables[audit.audited]

----------------------------------------------------------------------------
(* Properties of the rate limiting headers *)

\* the stack has answered a request that the rate limiter passed on
AnsweredAdmitted ==
    /\ phase = "done"
    /\ \E i \in DOMAIN inbound : inbound[i] = "ratelimit"
    /\ last.passed

\* the timestamps of the client of the request that are inside the window
InWindow == SelectSeq(requests[req.client], LAMBDA t : now - t < WindowSeconds)

\* the response announces the limit and what the window leaves of it
RemainingIsLimitLessRecorded ==
    /\ GetHeader(headers, "X-RateLimit-Limit") = ToString(requests_per_minute)
    /\ \E remaining \in 0..requests_per_minute :
          /\ GetHeader(headers, "X-RateLimit-Remaining") = ToString(remaining)
          /\ remaining = requests_per_minute - Len(InWindow)

\* C40: on every response to an admitted request X-RateLimit-Remaining is
\* X-RateLimit-Limit less the number of requests of the client recorded in
\* the window, this one included, and lies between 0 and the limit
C40_RemainingHeader == AnsweredAdmitted => RemainingIsLimitLessRecorded

----------------------------------------------------------------------------
(* Properties of GET /cases *)

\* the text contains the term, whatever the case of the letters
RECURSIVE Contains(_, _)
Contains(text, term) ==
    \/ /\ Len(text) >= Len(term)
       /\ \A i \in 1..Len(term) : Lower(text[i]) = Lower(term[i])
    \/ (text # <<>> /\ Contains(Tail(text), term))

\* the cases of the caller that match every filter of the request
Matching ==
    { c \in DOMAIN cases :
        /\ cases[c].user_id = listing.user_id
        /\ listing.include_deleted \/ cases[c].deleted_at = Null
        /\ listing.partner_type # "" => cases[c].partner_type = listing.partner_type
        /\ listing.search # <<>> =>
              \/ Contains(cases[c].name, listing.search)
              \/ Contains(cases[c].partner_name, listing.search)
              \/ Contains(cases[c].conversation_purpose, listing.search) }

\* the cases the request returns over all its pages
OverAllPages ==
    UNION { { GetCasesBody(cases, listing.user_id, p, listing.limit,
                           listing.partner_type, listing.search,
                           listing.include_deleted).returned[i] :
                i \in 1..Len(GetCasesBody(cases, listing.user_id, p, listing.limit,
                                          listing.partner_type, listing.search,
                                          listing.include_deleted).returned) } :
            p \in 1..(Cardinality(DOMAIN cases) + 1) }

\* C37: for every combination of search, partner_type and include_deleted
\* the cases returned over all pages are the caller's cases that match every
\* filter supplied, and the total is their number
C37_AllFiltersTogether ==
    listing.status = 200 =>
        /\ OverAllPages = Matching
        /\ listing.total = Cardinality(Matching)

\* C38: GET /cases returns no case of another user than the caller
C38_OwnCasesOnly ==
    listing.status = 200 =>
        \A i \in 1..Len(listing.returned) :
            cases[listing.returned[i]].user_id = listing.user_id

C38_Witness ==
    /\ listing.status = 200
    /\ listing.user_id = "u1"
    /\ listing.search # <<>>
    /\ Len(listing.returned) = 1
    /\ \E c \in DOMAIN cases :
          /\ cases[c].user_id = "u2"
          /\ cases[c].deleted_at = Null
          /\ ILike(cases[c].name, listing.search)

====
